---- MODULE Spec2Model ----
\* Model of bgoujaud/QG: the ConvexQGFunction interpolation-constraint generator
\* (code/function_class/convex_qg_function.py) and the three unrollers
\* (conjugate gradient, decreasing-step gradient descent, heavy ball) that build
\* one performance-estimation problem each.
\*
\* Two specifications share the function object's state:
\*   SpecFunction  any sequence of calls on one ConvexQGFunction object
\*                 (stationary_point, oracle, gradient, value, add_class_constraints);
\*   Spec          one run of one of the three unrollers, statement by statement.
EXTENDS Integers, Naturals, Sequences, FiniteSets, TLC

VARIABLES
    list_of_points,            \* Function.list_of_points: sequence of triples
    list_of_stationary_points, \* Function.list_of_stationary_points
    list_of_constraints,       \* Function.list_of_constraints
    reuse_gradient,            \* Function.reuse_gradient
    L,                         \* ConvexQGFunction.L
    point_counter,             \* Point.counter: identity of the next leaf Point
    expr_counter,              \* Expression.counter: identity of the next leaf value
    list_of_conditions,        \* PEP.list_of_conditions (initial conditions)
    list_of_performance_metrics, \* PEP.list_of_performance_metrics
    algo,                      \* which script runs: "cg", "gd", "hb", or "api"
    n,                         \* the unroller's argument n
    pc,                        \* position of the running script
    locals,                    \* the unroller's bound local variables, by name
    ret,                       \* value returned by the last call on the function object
    calls,                     \* history: one record per add_class_constraints call
    solve_calls,               \* history: number of problem.solve calls
    points_grew                \* history: list_of_points was only ever appended to

vars == <<list_of_points, list_of_stationary_points, list_of_constraints,
          reuse_gradient, L, point_counter, expr_counter, list_of_conditions,
          list_of_performance_metrics, algo, n, pc, locals, ret, calls,
          solve_calls, points_grew>>

function_vars == <<list_of_points, list_of_stationary_points, list_of_constraints,
                   reuse_gradient, L, point_counter, expr_counter>>

----------------------------------------------------------------------------
\* Bounds of the model.

\* Most triples one function object records under SpecFunction.
MaxPoints == 3

\* Most add_class_constraints calls on one function object under SpecFunction.
MaxCalls == 2

\* Largest iteration count n an unroller is run with.
MaxN == 6

\* Values of the parameter L (positive, spec section 7 leaves L <= 0 undefined).
Ls == {1, 2}

----------------------------------------------------------------------------
\* Exact rationals <<numerator, denominator>>, denominator > 0, in lowest terms:
\* the scalar coefficients of Points.

Abs(a) == IF a < 0 THEN -a ELSE a

RECURSIVE GCD(_, _)
GCD(a, b) == IF b = 0 THEN a ELSE GCD(b, a % b)

RNorm(a, b) ==
    LET s == IF b < 0 THEN -1 ELSE 1
        d == GCD(Abs(a), Abs(b))
    IN  <<(s * a) \div d, (s * b) \div d>>

RZero == <<0, 1>>
ROne == <<1, 1>>

----------------------------------------------------------------------------
\* Natural numbers of any size, for the 53-bit significands of Python floats:
\* a little-endian sequence of limbs in 0..Base-1 without a leading zero limb,
\* of value Sum_i limb[i] * Base^(i-1); <<>> is zero. Limbs are small enough
\* for a column of limb products to stay below 2^31.

LimbBits == 13
Base == 2 ^ LimbBits

Max(a, b) == IF a >= b THEN a ELSE b
Min(a, b) == IF a <= b THEN a ELSE b

RECURSIVE BTrim(_)
BTrim(s) ==
    IF s = <<>> \/ s[Len(s)] # 0 THEN s ELSE BTrim(SubSeq(s, 1, Len(s) - 1))

RECURSIVE BCarry(_, _, _)
BCarry(s, i, c) ==
    IF i > Len(s) /\ c = 0 THEN <<>>
    ELSE LET v == (IF i <= Len(s) THEN s[i] ELSE 0) + c
         IN  <<v % Base>> \o BCarry(s, i + 1, v \div Base)

BNorm(s) == BTrim(BCarry(s, 1, 0))
BFromInt(k) == BNorm(<<k>>)
BLimb(a, i) == IF i >= 1 /\ i <= Len(a) THEN a[i] ELSE 0
BAdd(a, b) == BNorm([i \in 1..Max(Len(a), Len(b)) |-> BLimb(a, i) + BLimb(b, i)])

RECURSIVE BBorrow(_, _, _, _)
BBorrow(a, b, i, c) ==
    IF i > Len(a) THEN <<>>
    ELSE LET v == a[i] - BLimb(b, i) - c
         IN  <<v % Base>> \o BBorrow(a, b, i + 1, IF v < 0 THEN 1 ELSE 0)

\* a - b for a >= b.
BSub(a, b) == BTrim(BBorrow(a, b, 1, 0))

RECURSIVE BMulColumn(_, _, _, _)
BMulColumn(a, b, k, i) ==
    IF i > Len(a) THEN 0
    ELSE a[i] * BLimb(b, k + 1 - i) + BMulColumn(a, b, k, i + 1)

BMul(a, b) ==
    IF a = <<>> \/ b = <<>> THEN <<>>
    ELSE BNorm([k \in 1..(Len(a) + Len(b) - 1) |-> BMulColumn(a, b, k, 1)])

RECURSIVE BCmpFrom(_, _, _)
BCmpFrom(a, b, i) ==
    IF i = 0 THEN 0
    ELSE IF a[i] < b[i] THEN -1
    ELSE IF a[i] > b[i] THEN 1
    ELSE BCmpFrom(a, b, i - 1)

\* -1, 0 or 1 as a is below, equal to or above b.
BCmp(a, b) ==
    IF Len(a) < Len(b) THEN -1
    ELSE IF Len(a) > Len(b) THEN 1
    ELSE BCmpFrom(a, b, Len(a))

BOdd(a) == a # <<>> /\ a[1] % 2 = 1

RECURSIVE IntBitLen(_)
IntBitLen(k) == IF k = 0 THEN 0 ELSE 1 + IntBitLen(k \div 2)

BBitLen(a) == IF a = <<>> THEN 0 ELSE LimbBits * (Len(a) - 1) + IntBitLen(a[Len(a)])

\* a * 2^s.
BShl(a, s) ==
    LET q == s \div LimbBits
        r == s % LimbBits
    IN  BNorm([i \in 1..(Len(a) + q) |-> IF i <= q THEN 0 ELSE a[i - q] * 2 ^ r])

\* floor(a / 2^s).
BShr(a, s) ==
    LET q == s \div LimbBits
        r == s % LimbBits
    IN  IF Len(a) <= q THEN <<>>
        ELSE BTrim([i \in 1..(Len(a) - q) |->
                       (a[i + q] \div 2 ^ r)
                           + (BLimb(a, i + q + 1) % 2 ^ r) * 2 ^ (LimbBits - r)])

RECURSIVE BDivFrom(_, _, _, _)
BDivFrom(a, b, q, i) ==
    IF i < 0 THEN q
    ELSE IF BCmp(BMul(BAdd(q, BShl(<<1>>, i)), b), a) <= 0
         THEN BDivFrom(a, b, BAdd(q, BShl(<<1>>, i)), i - 1)
         ELSE BDivFrom(a, b, q, i - 1)

\* floor(a / b) for b > 0.
BDiv(a, b) == BDivFrom(a, b, <<>>, Max(BBitLen(a) - BBitLen(b), 0))

RECURSIVE BSqrtFrom(_, _, _)
BSqrtFrom(a, r, i) ==
    IF i < 0 THEN r
    ELSE IF BCmp(BMul(BAdd(r, BShl(<<1>>, i)), BAdd(r, BShl(<<1>>, i))), a) <= 0
         THEN BSqrtFrom(a, BAdd(r, BShl(<<1>>, i)), i - 1)
         ELSE BSqrtFrom(a, r, i - 1)

\* floor(sqrt(a)).
BSqrt(a) == BSqrtFrom(a, <<>>, BBitLen(a) \div 2)

----------------------------------------------------------------------------
\* Python floats (IEEE-754 binary64, round to nearest, ties to even) as the code
\* computes with them: u / 2 + sqrt((u / 2) ** 2 + 2), 1 / (L * u) and
\* L / (2 * u) in gradient descent, 1 / (L * (t+2)) and t / (t+2) in heavy ball,
\* L / (2 * (n+1)) in heavy ball and conjugate gradient, 1 / (2 * self.L) in the
\* class constraints, and the products and sums of Point coefficients with these
\* values. A float is <<sign, significand, exponent>> of value
\* sign * significand * 2^exponent, sign in {-1, 1} and the significand a natural
\* number of exactly MantissaBits bits; zero is FZero. The values of the model
\* stay far inside the normal range, so no subnormal, infinity or NaN arises.

MantissaBits == 53

FZero == <<0, <<>>, 0>>
FOne == <<1, <<0, 0, 0, 0, 1>>, -52>>

\* The element of a singleton set: The({e(v) : v \in {d}}) is e(d), with d
\* evaluated once.
The(S) == CHOOSE v \in S : TRUE

\* The float nearest to sign * a * 2^e, a > 0 a natural number.
FRoundNat(sign, a, e) ==
    LET nb == BBitLen(a)
        s == nb - MantissaBits
    IN  IF s <= 0 THEN <<sign, BShl(a, -s), e + s>>
        ELSE LET q == BShr(a, s)
                 c == BCmp(a, BShl(BAdd(BShl(q, 1), <<1>>), s - 1))
                 m == IF c > 0 \/ (c = 0 /\ BOdd(q)) THEN BAdd(q, <<1>>) ELSE q
             IN  IF BBitLen(m) > MantissaBits THEN <<sign, BShr(m, 1), e + s + 1>>
                 ELSE <<sign, m, e + s>>

FRound(sign, a, e) == The({FRoundNat(sign, v, e) : v \in {a}})

\* float(k) of an int k.
FFromInt(k) ==
    IF k = 0 THEN FZero
    ELSE FRound(IF k < 0 THEN -1 ELSE 1, BFromInt(IF k < 0 THEN -k ELSE k), 0)

FNeg(x) == <<-x[1], x[2], x[3]>>

\* x * y.
FMulValues(x, y) ==
    IF x[1] = 0 \/ y[1] = 0 THEN FZero
    ELSE FRound(x[1] * y[1], BMul(x[2], y[2]), x[3] + y[3])

FMul(x, y) == The({FMulValues(v, w) : v \in {x}, w \in {y}})

\* x / y for y # 0: a quotient of MantissaBits + 3 bits or more, its last bit
\* set when the division left a remainder, is rounded. Division by a power of
\* two is exact and only moves the exponent.
FDivValues(x, y) ==
    IF x[1] = 0 THEN FZero
    ELSE IF y[2] = FOne[2] THEN <<x[1] * y[1], x[2], x[3] - y[3] - (MantissaBits - 1)>>
    ELSE LET a == BShl(x[2], MantissaBits + 3)
         IN  The({FRound(x[1] * y[1],
                         BAdd(BShl(q, 1), IF BMul(q, y[2]) = a THEN <<>> ELSE <<1>>),
                         x[3] - y[3] - (MantissaBits + 3) - 1) : q \in {BDiv(a, y[2])}})

FDiv(x, y) == The({FDivValues(v, w) : v \in {x}, w \in {y}})

\* math.sqrt(x) for x >= 0.
FSqrtValue(x) ==
    IF x[1] = 0 THEN FZero
    ELSE LET odd == x[3] % 2 = 1
             e == IF odd THEN x[3] - 1 ELSE x[3]
             a == BShl(x[2], MantissaBits + 3 + (IF odd THEN 1 ELSE 0))
         IN  The({FRound(1, BAdd(BShl(r, 1), IF BMul(r, r) = a THEN <<>> ELSE <<1>>),
                         (e - (MantissaBits + 3)) \div 2 - 1) : r \in {BSqrt(a)}})

FSqrt(x) == The({FSqrtValue(v) : v \in {x}})

\* x + y.
FAddValues(x, y) ==
    IF x[1] = 0 THEN y
    ELSE IF y[1] = 0 THEN x
    ELSE LET e == Min(x[3], y[3])
             a == BShl(x[2], x[3] - e)
             b == BShl(y[2], y[3] - e)
             c == BCmp(a, b)
         IN  IF x[1] = y[1] THEN FRound(x[1], BAdd(a, b), e)
             ELSE IF c = 0 THEN FZero
             ELSE IF c > 0 THEN FRound(x[1], BSub(a, b), e)
             ELSE FRound(y[1], BSub(b, a), e)

FAdd(x, y) == The({FAddValues(v, w) : v \in {x}, w \in {y}})

FSub(x, y) == FAdd(x, FNeg(y))

\* x * y + z rounded once (a fused multiply-add).
FFmaValues(x, y, z) ==
    IF x[1] = 0 \/ y[1] = 0 THEN z
    ELSE IF z[1] = 0 THEN FMulValues(x, y)
    ELSE LET e == Min(x[3] + y[3], z[3])
             a == BShl(BMul(x[2], y[2]), x[3] + y[3] - e)
             b == BShl(z[2], z[3] - e)
             c == BCmp(a, b)
         IN  IF x[1] * y[1] = z[1] THEN FRound(z[1], BAdd(a, b), e)
             ELSE IF c = 0 THEN FZero
             ELSE IF c > 0 THEN FRound(x[1] * y[1], BSub(a, b), e)
             ELSE FRound(z[1], BSub(b, a), e)

FFma(x, y, z) == The({FFmaValues(u, v, w) : u \in {x}, v \in {y}, w \in {z}})

\* int(x) of a float x of integral value below 2^31.
FToInt(x) ==
    IF x[1] = 0 THEN 0
    ELSE LET a == IF x[3] <= 0 THEN BShr(x[2], -x[3]) ELSE BShl(x[2], x[3])
         IN  x[1] * (BLimb(a, 1) + Base * BLimb(a, 2) + Base * Base * BLimb(a, 3))

----------------------------------------------------------------------------
\* x ** y of two Python floats: float.__pow__ hands x and y to pow of the C
\* library, whose result is within one unit in the last place of x^y but not
\* always the nearest float. The operators below are that function as the build
\* runs it (GNU libm 2.36, x86-64, fused multiply-add), for x > 0 and a result
\* in the normal range: log(x) = hi + lo from a table of 128 intervals and a
\* polynomial, then exp(y * (hi + lo)) from a table of 2^(j/128) and a
\* polynomial. The constants and tables are libm's __pow_log_data and __exp_data.

Ln2hi == <<1, <<6144, 6097, 4287, 3164, 1>>, -53>>
Ln2lo == <<1, <<1840, 7739, 5604, 7654, 1>>, -97>>

\* Coefficients A[0] .. A[6] of the polynomial of log.
PowLogPoly ==
    <<<<-1, <<0, 0, 0, 0, 1>>, -53>>,
      <<-1, <<5472, 2730, 5461, 2730, 1>>, -53>>,
      <<1, <<6, 0, 0, 0, 1>>, -53>>,
      <<1, <<5454, 2762, 1638, 4915, 1>>, -53>>,
      <<-1, <<1146, 2381, 5461, 2730, 1>>, -53>>,
      <<-1, <<1513, 6722, 5862, 1170, 1>>, -52>>,
      <<1, <<8131, 6449, 2786, 0, 1>>, -52>>>>

\* <<invc, logc, logctail>> of interval i = 0 .. 127, at index i + 1.
PowLogTab ==
    <<<<<<1, <<0, 0, 0, 3392, 1>>, -52>>, <<-1, <<2048, 5582, 188, 3161, 1>>, -54>>, <<1, <<5760, 442, 2314, 5480, 1>>, -100>>>>,
      <<<<1, <<0, 0, 0, 3328, 1>>, -52>>, <<-1, <<2048, 6848, 3951, 2979, 1>>, -54>>, <<-1, <<5920, 1799, 566, 6474, 1>>, -98>>>>,
      <<<<1, <<0, 0, 0, 3264, 1>>, -52>>, <<-1, <<6144, 6698, 7621, 2796, 1>>, -54>>, <<-1, <<4205, 3506, 2357, 1733, 1>>, -97>>>>,
      <<<<1, <<0, 0, 0, 3200, 1>>, -52>>, <<-1, <<6144, 6511, 2913, 2613, 1>>, -54>>, <<-1, <<2005, 5507, 6439, 3337, 1>>, -101>>>>,
      <<<<1, <<0, 0, 0, 3136, 1>>, -52>>, <<-1, <<6144, 3003, 6117, 2428, 1>>, -54>>, <<-1, <<7904, 6473, 6756, 2102, 1>>, -99>>>>,
      <<<<1, <<0, 0, 0, 3072, 1>>, -52>>, <<-1, <<0, 4323, 752, 2243, 1>>, -54>>, <<1, <<1228, 612, 3026, 1968, 1>>, -98>>>>,
      <<<<1, <<0, 0, 0, 3008, 1>>, -52>>, <<-1, <<2048, 5173, 3105, 2056, 1>>, -54>>, <<1, <<2874, 3088, 7419, 6277, 1>>, -102>>>>,
      <<<<1, <<0, 0, 0, 2944, 1>>, -52>>, <<-1, <<2048, 2890, 4885, 1868, 1>>, -54>>, <<1, <<5216, 4748, 4513, 355, 1>>, -97>>>>,
      <<<<1, <<0, 0, 0, 2880, 1>>, -52>>, <<-1, <<0, 5316, 5990, 1679, 1>>, -54>>, <<1, <<146, 1580, 4981, 2738, 1>>, -97>>>>,
      <<<<1, <<0, 0, 0, 2816, 1>>, -52>>, <<-1, <<0, 5897, 6318, 1489, 1>>, -54>>, <<1, <<3032, 3513, 1958, 3318, 1>>, -97>>>>,
      <<<<1, <<0, 0, 0, 2752, 1>>, -52>>, <<-1, <<2048, 7924, 5764, 1298, 1>>, -54>>, <<1, <<4159, 5757, 1325, 2964, 1>>, -98>>>>,
      <<<<1, <<0, 0, 0, 2752, 1>>, -52>>, <<-1, <<2048, 7924, 5764, 1298, 1>>, -54>>, <<1, <<4159, 5757, 1325, 2964, 1>>, -98>>>>,
      <<<<1, <<0, 0, 0, 2688, 1>>, -52>>, <<-1, <<6144, 7803, 4222, 1106, 1>>, -54>>, <<-1, <<6774, 670, 2314, 3252, 1>>, -98>>>>,
      <<<<1, <<0, 0, 0, 2624, 1>>, -52>>, <<-1, <<6144, 2892, 1584, 913, 1>>, -54>>, <<-1, <<5124, 1850, 3866, 8031, 1>>, -98>>>>,
      <<<<1, <<0, 0, 0, 2560, 1>>, -52>>, <<-1, <<2048, 7517, 5930, 718, 1>>, -54>>, <<1, <<2288, 7189, 4492, 7743, 1>>, -98>>>>,
      <<<<1, <<0, 0, 0, 2496, 1>>, -52>>, <<-1, <<2048, 3442, 766, 523, 1>>, -54>>, <<-1, <<6758, 2090, 4415, 3409, 1>>, -97>>>>,
      <<<<1, <<0, 0, 0, 2432, 1>>, -52>>, <<-1, <<4096, 5020, 2360, 326, 1>>, -54>>, <<-1, <<782, 6048, 7071, 6359, 1>>, -99>>>>,
      <<<<1, <<0, 0, 0, 2368, 1>>, -52>>, <<-1, <<4096, 1446, 2405, 128, 1>>, -54>>, <<-1, <<3455, 6049, 3623, 109, 1>>, -100>>>>,
      <<<<1, <<0, 0, 0, 2368, 1>>, -52>>, <<-1, <<4096, 1446, 2405, 128, 1>>, -54>>, <<-1, <<3455, 6049, 3623, 109, 1>>, -100>>>>,
      <<<<1, <<0, 0, 0, 2304, 1>>, -52>>, <<-1, <<0, 2802, 1563, 8050, 1>>, -55>>, <<1, <<7303, 7369, 2730, 6830, 1>>, -99>>>>,
      <<<<1, <<0, 0, 0, 2240, 1>>, -52>>, <<-1, <<0, 7907, 2930, 7649, 1>>, -55>>, <<1, <<3876, 1077, 3559, 5709, 1>>, -97>>>>,
      <<<<1, <<0, 0, 0, 2176, 1>>, -52>>, <<-1, <<4096, 4439, 475, 7246, 1>>, -55>>, <<-1, <<7952, 511, 5077, 3678, 1>>, -98>>>>,
      <<<<1, <<0, 0, 0, 2112, 1>>, -52>>, <<-1, <<0, 6782, 2138, 6840, 1>>, -55>>, <<1, <<2075, 7763, 1134, 885, 1>>, -97>>>>,
      <<<<1, <<0, 0, 0, 2048, 1>>, -52>>, <<-1, <<0, 7381, 7665, 6431, 1>>, -55>>, <<1, <<1076, 1276, 5082, 3826, 1>>, -97>>>>,
      <<<<1, <<0, 0, 0, 2048, 1>>, -52>>, <<-1, <<0, 7381, 7665, 6431, 1>>, -55>>, <<1, <<1076, 1276, 5082, 3826, 1>>, -97>>>>,
      <<<<1, <<0, 0, 0, 1984, 1>>, -52>>, <<-1, <<4096, 364, 413, 6021, 1>>, -55>>, <<1, <<6031, 3165, 3084, 4765, 1>>, -98>>>>,
      <<<<1, <<0, 0, 0, 1920, 1>>, -52>>, <<-1, <<0, 5126, 4691, 5607, 1>>, -55>>, <<1, <<4198, 7788, 6351, 5276, 1>>, -104>>>>,
      <<<<1, <<0, 0, 0, 1856, 1>>, -52>>, <<-1, <<4096, 7957, 3847, 5191, 1>>, -55>>, <<-1, <<490, 566, 6455, 2840, 1>>, -97>>>>,
      <<<<1, <<0, 0, 0, 1856, 1>>, -52>>, <<-1, <<4096, 7957, 3847, 5191, 1>>, -55>>, <<-1, <<490, 566, 6455, 2840, 1>>, -97>>>>,
      <<<<1, <<0, 0, 0, 1792, 1>>, -52>>, <<-1, <<4096, 1954, 5799, 4772, 1>>, -55>>, <<-1, <<5347, 1550, 5697, 5539, 1>>, -97>>>>,
      <<<<1, <<0, 0, 0, 1728, 1>>, -52>>, <<-1, <<4096, 2310, 2073, 4351, 1>>, -55>>, <<1, <<6665, 7903, 4063, 6011, 1>>, -97>>>>,
      <<<<1, <<0, 0, 0, 1664, 1>>, -52>>, <<-1, <<0, 4231, 576, 3927, 1>>, -55>>, <<1, <<2648, 4762, 1052, 6071, 1>>, -97>>>>,
      <<<<1, <<0, 0, 0, 1664, 1>>, -52>>, <<-1, <<0, 4231, 576, 3927, 1>>, -55>>, <<1, <<2648, 4762, 1052, 6071, 1>>, -97>>>>,
      <<<<1, <<0, 0, 0, 1600, 1>>, -52>>, <<-1, <<4096, 6350, 1017, 3500, 1>>, -55>>, <<-1, <<614, 7575, 6824, 456, 1>>, -98>>>>,
      <<<<1, <<0, 0, 0, 1536, 1>>, -52>>, <<-1, <<4096, 1340, 3100, 3070, 1>>, -55>>, <<-1, <<4153, 6274, 4327, 7484, 1>>, -98>>>>,
      <<<<1, <<0, 0, 0, 1536, 1>>, -52>>, <<-1, <<4096, 1340, 3100, 3070, 1>>, -55>>, <<-1, <<4153, 6274, 4327, 7484, 1>>, -98>>>>,
      <<<<1, <<0, 0, 0, 1472, 1>>, -52>>, <<-1, <<4096, 7437, 6520, 2637, 1>>, -55>>, <<-1, <<7055, 58, 740, 445, 1>>, -97>>>>,
      <<<<1, <<0, 0, 0, 1408, 1>>, -52>>, <<-1, <<0, 1628, 2779, 2202, 1>>, -55>>, <<1, <<6204, 2475, 4184, 3609, 1>>, -98>>>>,
      <<<<1, <<0, 0, 0, 1408, 1>>, -52>>, <<-1, <<0, 1628, 2779, 2202, 1>>, -55>>, <<1, <<6204, 2475, 4184, 3609, 1>>, -98>>>>,
      <<<<1, <<0, 0, 0, 1344, 1>>, -52>>, <<-1, <<4096, 244, 7944, 1763, 1>>, -55>>, <<1, <<5178, 2362, 403, 753, 1>>, -100>>>>,
      <<<<1, <<0, 0, 0, 1280, 1>>, -52>>, <<-1, <<4096, 255, 5310, 1322, 1>>, -55>>, <<-1, <<1032, 7054, 3077, 2330, 1>>, -97>>>>,
      <<<<1, <<0, 0, 0, 1216, 1>>, -52>>, <<-1, <<0, 2427, 2741, 878, 1>>, -55>>, <<-1, <<918, 141, 2310, 7425, 1>>, -97>>>>,
      <<<<1, <<0, 0, 0, 1216, 1>>, -52>>, <<-1, <<0, 2427, 2741, 878, 1>>, -55>>, <<-1, <<918, 141, 2310, 7425, 1>>, -97>>>>,
      <<<<1, <<0, 0, 0, 1152, 1>>, -52>>, <<-1, <<4096, 1668, 8095, 430, 1>>, -55>>, <<1, <<7156, 1858, 1442, 5331, 1>>, -99>>>>,
      <<<<1, <<0, 0, 0, 1152, 1>>, -52>>, <<-1, <<4096, 1668, 8095, 430, 1>>, -55>>, <<1, <<7156, 1858, 1442, 5331, 1>>, -99>>>>,
      <<<<1, <<0, 0, 0, 1088, 1>>, -52>>, <<-1, <<0, 3807, 1100, 8153, 1>>, -56>>, <<-1, <<5106, 1305, 5399, 2794, 1>>, -97>>>>,
      <<<<1, <<0, 0, 0, 1024, 1>>, -52>>, <<-1, <<0, 4440, 475, 7246, 1>>, -56>>, <<1, <<60, 6016, 2826, 5224, 1>>, -97>>>>,
      <<<<1, <<0, 0, 0, 1024, 1>>, -52>>, <<-1, <<0, 4440, 475, 7246, 1>>, -56>>, <<1, <<60, 6016, 2826, 5224, 1>>, -97>>>>,
      <<<<1, <<0, 0, 0, 960, 1>>, -52>>, <<-1, <<0, 6878, 5411, 6332, 1>>, -56>>, <<-1, <<7686, 765, 5590, 6680, 1>>, -98>>>>,
      <<<<1, <<0, 0, 0, 896, 1>>, -52>>, <<-1, <<0, 4695, 6990, 5412, 1>>, -56>>, <<1, <<2760, 733, 3450, 2674, 1>>, -97>>>>,
      <<<<1, <<0, 0, 0, 896, 1>>, -52>>, <<-1, <<0, 4695, 6990, 5412, 1>>, -56>>, <<1, <<2760, 733, 3450, 2674, 1>>, -97>>>>,
      <<<<1, <<0, 0, 0, 832, 1>>, -52>>, <<-1, <<0, 4493, 4469, 4486, 1>>, -56>>, <<1, <<5736, 2426, 2643, 1784, 1>>, -98>>>>,
      <<<<1, <<0, 0, 0, 832, 1>>, -52>>, <<-1, <<0, 4493, 4469, 4486, 1>>, -56>>, <<1, <<5736, 2426, 2643, 1784, 1>>, -98>>>>,
      <<<<1, <<0, 0, 0, 768, 1>>, -52>>, <<-1, <<0, 5931, 5282, 3553, 1>>, -56>>, <<-1, <<5082, 2459, 3570, 3374, 1>>, -97>>>>,
      <<<<1, <<0, 0, 0, 704, 1>>, -52>>, <<-1, <<0, 6193, 463, 2614, 1>>, -56>>, <<1, <<7767, 3634, 5848, 7684, 1>>, -98>>>>,
      <<<<1, <<0, 0, 0, 704, 1>>, -52>>, <<-1, <<0, 6193, 463, 2614, 1>>, -56>>, <<1, <<7767, 3634, 5848, 7684, 1>>, -98>>>>,
      <<<<1, <<0, 0, 0, 640, 1>>, -52>>, <<-1, <<0, 4319, 5605, 1667, 1>>, -56>>, <<1, <<5087, 1992, 5811, 6333, 1>>, -97>>>>,
      <<<<1, <<0, 0, 0, 640, 1>>, -52>>, <<-1, <<0, 4319, 5605, 1667, 1>>, -56>>, <<1, <<5087, 1992, 5811, 6333, 1>>, -97>>>>,
      <<<<1, <<0, 0, 0, 576, 1>>, -52>>, <<-1, <<0, 5404, 3515, 714, 1>>, -56>>, <<1, <<777, 5245, 6045, 2296, 1>>, -98>>>>,
      <<<<1, <<0, 0, 0, 512, 1>>, -52>>, <<-1, <<0, 140, 3120, 7700, 1>>, -57>>, <<1, <<3729, 6580, 1952, 6835, 1>>, -97>>>>,
      <<<<1, <<0, 0, 0, 512, 1>>, -52>>, <<-1, <<0, 140, 3120, 7700, 1>>, -57>>, <<1, <<3729, 6580, 1952, 6835, 1>>, -97>>>>,
      <<<<1, <<0, 0, 0, 448, 1>>, -52>>, <<-1, <<0, 2252, 5980, 5765, 1>>, -57>>, <<1, <<4172, 3763, 7865, 6404, 1>>, -98>>>>,
      <<<<1, <<0, 0, 0, 448, 1>>, -52>>, <<-1, <<0, 2252, 5980, 5765, 1>>, -57>>, <<1, <<4172, 3763, 7865, 6404, 1>>, -98>>>>,
      <<<<1, <<0, 0, 0, 384, 1>>, -52>>, <<-1, <<0, 4502, 5693, 3816, 1>>, -57>>, <<-1, <<494, 1941, 4493, 6648, 1>>, -97>>>>,
      <<<<1, <<0, 0, 0, 384, 1>>, -52>>, <<-1, <<0, 4502, 5693, 3816, 1>>, -57>>, <<-1, <<494, 1941, 4493, 6648, 1>>, -97>>>>,
      <<<<1, <<0, 0, 0, 320, 1>>, -52>>, <<-1, <<0, 4086, 494, 1853, 1>>, -57>>, <<1, <<7850, 2359, 3581, 2565, 1>>, -100>>>>,
      <<<<1, <<0, 0, 0, 320, 1>>, -52>>, <<-1, <<0, 4086, 494, 1853, 1>>, -57>>, <<1, <<7850, 2359, 3581, 2565, 1>>, -100>>>>,
      <<<<1, <<0, 0, 0, 256, 1>>, -52>>, <<-1, <<0, 5056, 1731, 7941, 1>>, -58>>, <<-1, <<2532, 1008, 2463, 4864, 1>>, -97>>>>,
      <<<<1, <<0, 0, 0, 256, 1>>, -52>>, <<-1, <<0, 5056, 1731, 7941, 1>>, -58>>, <<-1, <<2532, 1008, 2463, 4864, 1>>, -97>>>>,
      <<<<1, <<0, 0, 0, 192, 1>>, -52>>, <<-1, <<0, 7852, 1729, 3954, 1>>, -58>>, <<-1, <<1593, 8149, 5412, 4378, 1>>, -97>>>>,
      <<<<1, <<0, 0, 0, 128, 1>>, -52>>, <<-1, <<0, 2016, 2604, 8065, 1>>, -59>>, <<-1, <<1692, 5789, 7997, 7740, 1>>, -102>>>>,
      <<<<1, <<0, 0, 0, 128, 1>>, -52>>, <<-1, <<0, 2016, 2604, 8065, 1>>, -59>>, <<-1, <<1692, 5789, 7997, 7740, 1>>, -102>>>>,
      <<<<1, <<0, 0, 0, 64, 1>>, -52>>, <<-1, <<0, 6272, 2714, 8128, 1>>, -60>>, <<-1, <<228, 3794, 4035, 5060, 1>>, -98>>>>,
      <<<<1, <<0, 0, 0, 64, 1>>, -52>>, <<-1, <<0, 6272, 2714, 8128, 1>>, -60>>, <<-1, <<228, 3794, 4035, 5060, 1>>, -98>>>>,
      <<<<1, <<0, 0, 0, 0, 1>>, -52>>, <<0, <<>>, 0>>, <<0, <<>>, 0>>>>,
      <<<<1, <<0, 0, 0, 0, 1>>, -52>>, <<0, <<>>, 0>>, <<0, <<>>, 0>>>>,
      <<<<1, <<0, 0, 0, 8064, 1>>, -53>>, <<1, <<0, 3144, 1373, 32, 1>>, -59>>, <<-1, <<3048, 3305, 6886, 398, 1>>, -98>>>>,
      <<<<1, <<0, 0, 0, 7936, 1>>, -53>>, <<1, <<0, 1180, 5526, 64, 1>>, -58>>, <<-1, <<6098, 5911, 5825, 1976, 1>>, -97>>>>,
      <<<<1, <<0, 0, 0, 7808, 1>>, -53>>, <<1, <<0, 1608, 2378, 4242, 1>>, -58>>, <<-1, <<3124, 4816, 3724, 5441, 1>>, -97>>>>,
      <<<<1, <<0, 0, 0, 7680, 1>>, -53>>, <<1, <<0, 3898, 5986, 130, 1>>, -57>>, <<1, <<5971, 1934, 4119, 547, 1>>, -99>>>>,
      <<<<1, <<0, 0, 0, 7552, 1>>, -53>>, <<1, <<0, 368, 2997, 2253, 1>>, -57>>, <<-1, <<7464, 3567, 7389, 6188, 1>>, -97>>>>,
      <<<<1, <<0, 0, 0, 7424, 1>>, -53>>, <<1, <<0, 1278, 2693, 4393, 1>>, -57>>, <<-1, <<1661, 721, 1396, 4851, 1>>, -98>>>>,
      <<<<1, <<0, 0, 0, 7296, 1>>, -53>>, <<1, <<0, 3822, 7411, 6550, 1>>, -57>>, <<-1, <<2055, 7873, 7313, 5329, 1>>, -98>>>>,
      <<<<1, <<0, 0, 0, 7232, 1>>, -53>>, <<1, <<0, 54, 3184, 7636, 1>>, -57>>, <<-1, <<7035, 7753, 3987, 7202, 1>>, -99>>>>,
      <<<<1, <<0, 0, 0, 7104, 1>>, -53>>, <<1, <<0, 2611, 3828, 814, 1>>, -56>>, <<-1, <<7835, 4204, 5973, 2660, 1>>, -97>>>>,
      <<<<1, <<0, 0, 0, 6976, 1>>, -53>>, <<1, <<0, 7823, 7529, 1915, 1>>, -56>>, <<1, <<3799, 3802, 6057, 6544, 1>>, -97>>>>,
      <<<<1, <<0, 0, 0, 6848, 1>>, -53>>, <<1, <<0, 3261, 5779, 3026, 1>>, -56>>, <<-1, <<7454, 744, 399, 6354, 1>>, -97>>>>,
      <<<<1, <<0, 0, 0, 6784, 1>>, -53>>, <<1, <<0, 5974, 5314, 3585, 1>>, -56>>, <<1, <<3378, 3311, 874, 6205, 1>>, -101>>>>,
      <<<<1, <<0, 0, 0, 6656, 1>>, -53>>, <<1, <<0, 2762, 6039, 4710, 1>>, -56>>, <<1, <<2010, 5610, 5902, 1570, 1>>, -97>>>>,
      <<<<1, <<0, 0, 0, 6528, 1>>, -53>>, <<1, <<0, 3435, 4643, 5845, 1>>, -56>>, <<-1, <<2277, 8123, 10, 1825, 1>>, -98>>>>,
      <<<<1, <<0, 0, 0, 6464, 1>>, -53>>, <<1, <<0, 3554, 5632, 6416, 1>>, -56>>, <<1, <<3283, 4821, 5233, 3213, 1>>, -97>>>>,
      <<<<1, <<0, 0, 0, 6336, 1>>, -53>>, <<1, <<0, 6225, 3680, 7566, 1>>, -56>>, <<-1, <<1504, 7986, 6699, 7040, 1>>, -97>>>>,
      <<<<1, <<0, 0, 0, 6272, 1>>, -53>>, <<1, <<0, 3807, 1102, 8145, 1>>, -56>>, <<-1, <<2813, 7432, 5523, 2665, 1>>, -97>>>>,
      <<<<1, <<0, 0, 0, 6144, 1>>, -53>>, <<1, <<0, 4415, 928, 559, 1>>, -55>>, <<1, <<2034, 4456, 7731, 990, 1>>, -97>>>>,
      <<<<1, <<0, 0, 0, 6080, 1>>, -53>>, <<1, <<4096, 4383, 2783, 852, 1>>, -55>>, <<1, <<6452, 452, 913, 6479, 1>>, -97>>>>,
      <<<<1, <<0, 0, 0, 5952, 1>>, -53>>, <<1, <<0, 1076, 6211, 1442, 1>>, -55>>, <<1, <<5281, 7181, 6962, 1850, 1>>, -99>>>>,
      <<<<1, <<0, 0, 0, 5888, 1>>, -53>>, <<1, <<4096, 172, 7980, 1739, 1>>, -55>>, <<1, <<4745, 6747, 2568, 3167, 1>>, -103>>>>,
      <<<<1, <<0, 0, 0, 5760, 1>>, -53>>, <<1, <<4096, 6557, 3936, 2338, 1>>, -55>>, <<1, <<5752, 2029, 7765, 2822, 1>>, -97>>>>,
      <<<<1, <<0, 0, 0, 5696, 1>>, -53>>, <<1, <<4096, 1293, 6521, 2639, 1>>, -55>>, <<1, <<7623, 2891, 6713, 3175, 1>>, -97>>>>,
      <<<<1, <<0, 0, 0, 5568, 1>>, -53>>, <<1, <<4096, 5216, 5039, 3246, 1>>, -55>>, <<1, <<3704, 481, 715, 5023, 1>>, -98>>>>,
      <<<<1, <<0, 0, 0, 5504, 1>>, -53>>, <<1, <<4096, 7083, 1186, 3552, 1>>, -55>>, <<-1, <<481, 3297, 889, 2595, 1>>, -97>>>>,
      <<<<1, <<0, 0, 0, 5440, 1>>, -53>>, <<1, <<4096, 2594, 865, 3859, 1>>, -55>>, <<-1, <<773, 1162, 1052, 6348, 1>>, -98>>>>,
      <<<<1, <<0, 0, 0, 5312, 1>>, -53>>, <<1, <<0, 6600, 3066, 4477, 1>>, -55>>, <<-1, <<3281, 5961, 5418, 3706, 1>>, -99>>>>,
      <<<<1, <<0, 0, 0, 5248, 1>>, -53>>, <<1, <<0, 1976, 5815, 4788, 1>>, -55>>, <<1, <<8047, 1287, 2582, 4068, 1>>, -99>>>>,
      <<<<1, <<0, 0, 0, 5120, 1>>, -53>>, <<1, <<0, 1111, 6991, 5415, 1>>, -55>>, <<-1, <<361, 689, 4308, 4324, 1>>, -97>>>>,
      <<<<1, <<0, 0, 0, 5056, 1>>, -53>>, <<1, <<4096, 6878, 5653, 5731, 1>>, -55>>, <<-1, <<426, 5479, 851, 6251, 1>>, -99>>>>,
      <<<<1, <<0, 0, 0, 4992, 1>>, -53>>, <<1, <<0, 479, 462, 6049, 1>>, -55>>, <<-1, <<4790, 2720, 4374, 6807, 1>>, -97>>>>,
      <<<<1, <<0, 0, 0, 4928, 1>>, -53>>, <<1, <<4096, 6016, 7921, 6367, 1>>, -55>>, <<-1, <<3026, 3249, 7345, 984, 1>>, -100>>>>,
      <<<<1, <<0, 0, 0, 4800, 1>>, -53>>, <<1, <<4096, 1700, 3948, 7010, 1>>, -55>>, <<-1, <<4149, 6317, 2749, 5630, 1>>, -97>>>>,
      <<<<1, <<0, 0, 0, 4736, 1>>, -53>>, <<1, <<4096, 7992, 959, 7334, 1>>, -55>>, <<1, <<5168, 527, 2520, 1060, 1>>, -103>>>>,
      <<<<1, <<0, 0, 0, 4672, 1>>, -53>>, <<1, <<0, 1768, 2937, 7659, 1>>, -55>>, <<-1, <<3601, 3548, 1369, 5186, 1>>, -103>>>>,
      <<<<1, <<0, 0, 0, 4608, 1>>, -53>>, <<1, <<4096, 1437, 1819, 7986, 1>>, -55>>, <<1, <<7984, 4198, 6962, 6039, 1>>, -98>>>>,
      <<<<1, <<0, 0, 0, 4480, 1>>, -53>>, <<1, <<6144, 618, 3608, 226, 1>>, -54>>, <<1, <<3729, 5994, 5829, 4409, 1>>, -100>>>>,
      <<<<1, <<0, 0, 0, 4416, 1>>, -53>>, <<1, <<0, 6923, 2905, 392, 1>>, -54>>, <<1, <<2793, 4583, 709, 3633, 1>>, -97>>>>,
      <<<<1, <<0, 0, 0, 4352, 1>>, -53>>, <<1, <<2048, 4415, 928, 559, 1>>, -54>>, <<-1, <<4124, 7471, 920, 6210, 1>>, -97>>>>,
      <<<<1, <<0, 0, 0, 4288, 1>>, -53>>, <<1, <<6144, 7527, 5938, 726, 1>>, -54>>, <<1, <<5761, 7464, 4989, 5941, 1>>, -97>>>>,
      <<<<1, <<0, 0, 0, 4224, 1>>, -53>>, <<1, <<2048, 6867, 1624, 895, 1>>, -54>>, <<1, <<7607, 2621, 6996, 6477, 1>>, -97>>>>,
      <<<<1, <<0, 0, 0, 4160, 1>>, -53>>, <<1, <<6144, 2165, 4443, 1064, 1>>, -54>>, <<1, <<6890, 4661, 6062, 5391, 1>>, -99>>>>,
      <<<<1, <<0, 0, 0, 4032, 1>>, -53>>, <<1, <<4096, 1764, 7199, 1405, 1>>, -54>>, <<1, <<1268, 4736, 7826, 5433, 1>>, -97>>>>,
      <<<<1, <<0, 0, 0, 3968, 1>>, -53>>, <<1, <<0, 3739, 7288, 1577, 1>>, -54>>, <<-1, <<7352, 6409, 7860, 4548, 1>>, -97>>>>,
      <<<<1, <<0, 0, 0, 3904, 1>>, -53>>, <<1, <<4096, 5616, 6621, 1750, 1>>, -54>>, <<1, <<6088, 1931, 4972, 733, 1>>, -98>>>>,
      <<<<1, <<0, 0, 0, 3840, 1>>, -53>>, <<1, <<4096, 6553, 5277, 1924, 1>>, -54>>, <<1, <<7516, 4149, 5421, 4214, 1>>, -98>>>>,
      <<<<1, <<0, 0, 0, 3776, 1>>, -53>>, <<1, <<2048, 7855, 3336, 2099, 1>>, -54>>, <<1, <<157, 1159, 3515, 4552, 1>>, -99>>>>,
      <<<<1, <<0, 0, 0, 3712, 1>>, -53>>, <<1, <<2048, 5006, 880, 2275, 1>>, -54>>, <<-1, <<5749, 2878, 4994, 7759, 1>>, -97>>>>,
      <<<<1, <<0, 0, 0, 3648, 1>>, -53>>, <<1, <<4096, 4281, 6183, 2451, 1>>, -54>>, <<-1, <<6308, 6230, 582, 7233, 1>>, -97>>>>,
      <<<<1, <<0, 0, 0, 3584, 1>>, -53>>, <<1, <<0, 6597, 2945, 2629, 1>>, -54>>, <<1, <<1881, 2854, 7200, 7548, 1>>, -97>>>>,
      <<<<1, <<0, 0, 0, 3520, 1>>, -53>>, <<1, <<4096, 7750, 7636, 2807, 1>>, -54>>, <<1, <<239, 4842, 7035, 8027, 1>>, -98>>>>,
      <<<<1, <<0, 0, 0, 3456, 1>>, -53>>, <<1, <<0, 6859, 3959, 2987, 1>>, -54>>, <<-1, <<1500, 1315, 2690, 5142, 1>>, -99>>>>>>

InvLn2N == <<1, <<766, 2396, 4569, 3626, 1>>, -45>>
Shift == <<1, <<0, 0, 0, 4096, 1>>, 0>>
NegLn2hiN == <<-1, <<0, 6096, 4287, 3164, 1>>, -60>>
NegLn2loN == <<-1, <<6970, 1265, 1711, 6639, 1>>, -99>>

\* Coefficients C2 .. C5 of the polynomial of exp.
ExpPoly ==
    <<<<1, <<7613, 8191, 8191, 8191, 1>>, -54>>,
      <<1, <<5180, 2730, 5461, 2730, 1>>, -55>>,
      <<1, <<2961, 6329, 5491, 2730, 1>>, -57>>,
      <<1, <<4119, 7462, 1113, 546, 1>>, -59>>>>

\* <<tail, scale>> of j = 0 .. 127, at index j + 1: scale + scale * tail is 2^(j/128).
ExpTab ==
    <<<<<<0, <<>>, 0>>, <<1, <<0, 0, 0, 0, 1>>, -52>>>>,
      <<<<1, <<8046, 5189, 5062, 5750, 1>>, -106>>, <<1, <<4917, 4057, 3946, 44, 1>>, -52>>>>,
      <<<<-1, <<7261, 1734, 1255, 704, 1>>, -108>>, <<1, <<97, 5052, 1679, 89, 1>>, -52>>>>,
      <<<<-1, <<1745, 1083, 7812, 188, 1>>, -106>>, <<1, <<8069, 883, 1402, 134, 1>>, -52>>>>,
      <<<<1, <<5651, 2879, 5261, 6564, 1>>, -107>>, <<1, <<1396, 6316, 3124, 179, 1>>, -52>>>>,
      <<<<-1, <<3834, 8140, 8, 6045, 1>>, -107>>, <<1, <<5854, 3823, 6858, 224, 1>>, -52>>>>,
      <<<<1, <<2145, 3894, 5016, 494, 1>>, -109>>, <<1, <<7112, 940, 4422, 270, 1>>, -52>>>>,
      <<<<1, <<5017, 6558, 6422, 327, 1>>, -106>>, <<1, <<4995, 5687, 4018, 316, 1>>, -52>>>>,
      <<<<1, <<7021, 3099, 2455, 3893, 1>>, -106>>, <<1, <<2319, 1996, 5659, 362, 1>>, -52>>>>,
      <<<<1, <<4092, 6127, 1700, 7530, 1>>, -107>>, <<1, <<2039, 7058, 1162, 409, 1>>, -52>>>>,
      <<<<1, <<7377, 380, 3932, 7548, 1>>, -112>>, <<1, <<4514, 5790, 6924, 455, 1>>, -52>>>>,
      <<<<-1, <<3595, 3203, 3362, 5126, 1>>, -109>>, <<1, <<4891, 8182, 6571, 502, 1>>, -52>>>>,
      <<<<-1, <<7438, 4477, 5258, 2732, 1>>, -106>>, <<1, <<6993, 146, 116, 550, 1>>, -52>>>>,
      <<<<-1, <<2645, 631, 7139, 257, 1>>, -110>>, <<1, <<4556, 865, 3952, 597, 1>>, -52>>>>,
      <<<<-1, <<5142, 3759, 2286, 914, 1>>, -106>>, <<1, <<3552, 5449, 1707, 645, 1>>, -52>>>>,
      <<<<1, <<5551, 2786, 6394, 423, 1>>, -107>>, <<1, <<3665, 1324, 1586, 693, 1>>, -52>>>>,
      <<<<-1, <<4936, 5420, 1402, 54, 1>>, -107>>, <<1, <<4475, 1002, 3599, 741, 1>>, -52>>>>,
      <<<<-1, <<4669, 3825, 7189, 7743, 1>>, -107>>, <<1, <<3562, 1124, 7758, 789, 1>>, -52>>>>,
      <<<<1, <<5055, 6298, 783, 5907, 1>>, -107>>, <<1, <<2933, 7038, 5882, 838, 1>>, -52>>>>,
      <<<<-1, <<2854, 4239, 1821, 3507, 1>>, -106>>, <<1, <<7380, 34, 6177, 887, 1>>, -52>>>>,
      <<<<1, <<3936, 4561, 7631, 5593, 1>>, -106>>, <<1, <<6570, 2885, 460, 937, 1>>, -52>>>>,
      <<<<-1, <<6301, 7217, 178, 8143, 1>>, -107>>, <<1, <<6429, 6118, 5128, 986, 1>>, -52>>>>,
      <<<<1, <<909, 1334, 4177, 5342, 1>>, -107>>, <<1, <<3286, 788, 3810, 1036, 1>>, -52>>>>,
      <<<<1, <<1149, 1824, 364, 244, 1>>, -107>>, <<1, <<7318, 3054, 4708, 1086, 1>>, -52>>>>,
      <<<<1, <<2196, 7493, 8056, 3357, 1>>, -106>>, <<1, <<568, 5035, 7835, 1136, 1>>, -52>>>>,
      <<<<1, <<2173, 5026, 1596, 3772, 1>>, -107>>, <<1, <<1599, 7573, 5011, 1187, 1>>, -52>>>>,
      <<<<1, <<2034, 255, 2790, 142, 1>>, -107>>, <<1, <<7389, 3859, 4441, 1238, 1>>, -52>>>>,
      <<<<-1, <<2142, 7048, 7887, 3440, 1>>, -106>>, <<1, <<897, 4011, 6136, 1289, 1>>, -52>>>>,
      <<<<1, <<2865, 2125, 6235, 1519, 1>>, -107>>, <<1, <<7905, 2302, 1917, 1341, 1>>, -52>>>>,
      <<<<-1, <<8186, 4989, 1734, 6723, 1>>, -112>>, <<1, <<6544, 1750, 8180, 1392, 1>>, -52>>>>,
      <<<<1, <<2740, 4192, 156, 5743, 1>>, -107>>, <<1, <<779, 5920, 361, 1445, 1>>, -52>>>>,
      <<<<1, <<2959, 3702, 1186, 7209, 1>>, -109>>, <<1, <<3926, 2545, 3050, 1497, 1>>, -52>>>>,
      <<<<1, <<2998, 3461, 7507, 1690, 1>>, -107>>, <<1, <<5909, 4493, 8066, 1549, 1>>, -52>>>>,
      <<<<1, <<5196, 5475, 120, 3204, 1>>, -107>>, <<1, <<6193, 614, 7231, 1602, 1>>, -52>>>>,
      <<<<1, <<6218, 3743, 3671, 8122, 1>>, -107>>, <<1, <<5887, 4896, 556, 1656, 1>>, -52>>>>,
      <<<<-1, <<6916, 7282, 14, 3399, 1>>, -107>>, <<1, <<8177, 7316, 4439, 1709, 1>>, -52>>>>,
      <<<<-1, <<4200, 602, 7027, 1173, 1>>, -106>>, <<1, <<2507, 6613, 2509, 1763, 1>>, -52>>>>,
      <<<<-1, <<3470, 6793, 7686, 4623, 1>>, -106>>, <<1, <<6246, 2094, 2971, 1817, 1>>, -52>>>>,
      <<<<-1, <<5842, 5281, 6671, 931, 1>>, -108>>, <<1, <<8183, 1836, 5837, 1871, 1>>, -52>>>>,
      <<<<-1, <<6933, 7792, 1644, 4658, 1>>, -106>>, <<1, <<2277, 6301, 2928, 1926, 1>>, -52>>>>,
      <<<<1, <<3181, 6482, 4649, 2878, 1>>, -107>>, <<1, <<5154, 145, 2451, 1981, 1>>, -52>>>>,
      <<<<-1, <<2442, 4419, 6174, 1572, 1>>, -106>>, <<1, <<28, 1380, 4417, 2036, 1>>, -52>>>>,
      <<<<-1, <<2395, 188, 978, 4431, 1>>, -110>>, <<1, <<3626, 4025, 648, 2092, 1>>, -52>>>>,
      <<<<-1, <<6683, 6732, 1753, 6233, 1>>, -108>>, <<1, <<2199, 2693, 7542, 2147, 1>>, -52>>>>,
      <<<<1, <<3089, 1557, 7000, 1735, 1>>, -111>>, <<1, <<2349, 780, 536, 2204, 1>>, -52>>>>,
      <<<<1, <<1263, 6195, 590, 3276, 1>>, -106>>, <<1, <<87, 2280, 4219, 2260, 1>>, -52>>>>,
      <<<<1, <<889, 5384, 6262, 7577, 1>>, -109>>, <<1, <<7376, 3593, 2221, 2317, 1>>, -52>>>>,
      <<<<1, <<4656, 6264, 911, 2047, 1>>, -106>>, <<1, <<5086, 1726, 2748, 2374, 1>>, -52>>>>,
      <<<<1, <<4016, 7125, 5038, 3361, 1>>, -108>>, <<1, <<2599, 2481, 5813, 2431, 1>>, -52>>>>,
      <<<<1, <<119, 6823, 3962, 1595, 1>>, -106>>, <<1, <<7437, 4078, 3238, 2489, 1>>, -52>>>>,
      <<<<-1, <<910, 909, 3328, 7976, 1>>, -107>>, <<1, <<3239, 5353, 3229, 2547, 1>>, -52>>>>,
      <<<<-1, <<841, 1181, 4919, 4029, 1>>, -107>>, <<1, <<1602, 5755, 5800, 2605, 1>>, -52>>>>,
      <<<<-1, <<6239, 2169, 4527, 4541, 1>>, -108>>, <<1, <<3970, 5354, 2773, 2664, 1>>, -52>>>>,
      <<<<-1, <<7414, 986, 4539, 3108, 1>>, -107>>, <<1, <<4623, 4844, 2354, 2723, 1>>, -52>>>>,
      <<<<1, <<6030, 2030, 326, 1642, 1>>, -106>>, <<1, <<2010, 5545, 4557, 2782, 1>>, -52>>>>,
      <<<<1, <<6917, 7252, 3531, 5937, 1>>, -108>>, <<1, <<2045, 1214, 1205, 2842, 1>>, -52>>>>,
      <<<<1, <<5129, 4322, 6264, 199, 1>>, -106>>, <<1, <<5161, 2626, 503, 2902, 1>>, -52>>>>,
      <<<<1, <<1770, 206, 340, 2447, 1>>, -112>>, <<1, <<1719, 4810, 2466, 2962, 1>>, -52>>>>,
      <<<<1, <<53, 6950, 6538, 2149, 1>>, -106>>, <<1, <<328, 3433, 7109, 3022, 1>>, -52>>>>,
      <<<<-1, <<5791, 3275, 4760, 6600, 1>>, -107>>, <<1, <<7177, 2998, 6254, 3083, 1>>, -52>>>>,
      <<<<-1, <<3496, 8058, 4430, 6247, 1>>, -107>>, <<1, <<5509, 466, 8108, 3144, 1>>, -52>>>>,
      <<<<-1, <<2478, 2399, 7714, 2214, 1>>, -107>>, <<1, <<800, 1638, 4493, 3206, 1>>, -52>>>>,
      <<<<-1, <<6232, 690, 5982, 1949, 1>>, -106>>, <<1, <<549, 4777, 3616, 3268, 1>>, -52>>>>,
      <<<<1, <<6500, 1008, 2720, 3617, 1>>, -110>>, <<1, <<2419, 613, 5493, 3330, 1>>, -52>>>>,
      <<<<-1, <<552, 6897, 7151, 1895, 1>>, -106>>, <<1, <<7117, 5113, 1945, 3393, 1>>, -52>>>>,
      <<<<-1, <<6530, 6565, 2913, 5157, 1>>, -109>>, <<1, <<6847, 2142, 1181, 3456, 1>>, -52>>>>,
      <<<<-1, <<2542, 877, 7150, 1743, 1>>, -109>>, <<1, <<6703, 808, 3215, 3519, 1>>, -52>>>>,
      <<<<-1, <<2129, 1796, 3925, 440, 1>>, -107>>, <<1, <<5252, 2700, 8062, 3582, 1>>, -52>>>>,
      <<<<-1, <<7887, 4817, 6431, 4158, 1>>, -108>>, <<1, <<8052, 1890, 7546, 3646, 1>>, -52>>>>,
      <<<<-1, <<7600, 1115, 4784, 3548, 1>>, -107>>, <<1, <<372, 1324, 1682, 3711, 1>>, -52>>>>,
      <<<<-1, <<1674, 4783, 3207, 3122, 1>>, -107>>, <<1, <<1993, 4627, 6869, 3775, 1>>, -52>>>>,
      <<<<1, <<5331, 4174, 4823, 313, 1>>, -106>>, <<1, <<7487, 7922, 6739, 3840, 1>>, -52>>>>,
      <<<<-1, <<1309, 2669, 5934, 5733, 1>>, -108>>, <<1, <<391, 8024, 1308, 3906, 1>>, -52>>>>,
      <<<<1, <<107, 830, 8021, 2521, 1>>, -106>>, <<1, <<306, 2438, 6976, 3971, 1>>, -52>>>>,
      <<<<1, <<3157, 7859, 6250, 3031, 1>>, -109>>, <<1, <<3682, 5754, 7373, 4037, 1>>, -52>>>>,
      <<<<-1, <<3906, 7582, 4427, 4419, 1>>, -107>>, <<1, <<6674, 496, 2517, 4104, 1>>, -52>>>>,
      <<<<-1, <<5940, 2521, 3516, 1747, 1>>, -106>>, <<1, <<3603, 2662, 614, 4171, 1>>, -52>>>>,
      <<<<-1, <<7966, 4303, 270, 189, 1>>, -107>>, <<1, <<1965, 4382, 1681, 4238, 1>>, -52>>>>,
      <<<<-1, <<5998, 914, 5174, 2472, 1>>, -106>>, <<1, <<4845, 6692, 5734, 4305, 1>>, -52>>>>,
      <<<<1, <<2560, 6260, 6614, 346, 1>>, -106>>, <<1, <<1689, 3155, 4598, 4373, 1>>, -52>>>>,
      <<<<1, <<2740, 3975, 3056, 7022, 1>>, -107>>, <<1, <<219, 4437, 6480, 4441, 1>>, -52>>>>,
      <<<<-1, <<2047, 1583, 6183, 2924, 1>>, -109>>, <<1, <<1164, 5546, 3205, 4510, 1>>, -52>>>>,
      <<<<1, <<8004, 3994, 214, 6125, 1>>, -108>>, <<1, <<5942, 2219, 2982, 4579, 1>>, -52>>>>,
      <<<<-1, <<7555, 6385, 2025, 1554, 1>>, -106>>, <<1, <<8134, 7311, 5826, 4648, 1>>, -52>>>>,
      <<<<-1, <<7721, 7008, 3618, 6995, 1>>, -110>>, <<1, <<1509, 1646, 3564, 4718, 1>>, -52>>>>,
      <<<<-1, <<6489, 1157, 7775, 6215, 1>>, -109>>, <<1, <<4623, 7746, 4402, 4788, 1>>, -52>>>>,
      <<<<-1, <<6570, 6055, 4296, 1158, 1>>, -106>>, <<1, <<3664, 7922, 167, 4859, 1>>, -52>>>>,
      <<<<-1, <<3659, 6964, 6965, 2964, 1>>, -107>>, <<1, <<1978, 1616, 7260, 4929, 1>>, -52>>>>,
      <<<<1, <<3623, 7310, 7946, 863, 1>>, -108>>, <<1, <<4240, 5407, 1120, 5001, 1>>, -52>>>>,
      <<<<1, <<5051, 2131, 3448, 7076, 1>>, -109>>, <<1, <<803, 3865, 6342, 5072, 1>>, -52>>>>,
      <<<<-1, <<611, 4881, 264, 3978, 1>>, -107>>, <<1, <<1381, 6895, 6558, 5144, 1>>, -52>>>>,
      <<<<1, <<4565, 7953, 440, 5689, 1>>, -107>>, <<1, <<3379, 593, 1787, 5217, 1>>, -52>>>>,
      <<<<-1, <<6933, 7653, 5236, 887, 1>>, -106>>, <<1, <<1373, 4593, 236, 5290, 1>>, -52>>>>,
      <<<<1, <<4562, 1905, 3175, 408, 1>>, -106>>, <<1, <<4952, 6533, 1924, 5363, 1>>, -52>>>>,
      <<<<1, <<6835, 5018, 283, 2259, 1>>, -107>>, <<1, <<7615, 3023, 6869, 5436, 1>>, -52>>>>,
      <<<<-1, <<7604, 7284, 4965, 1471, 1>>, -107>>, <<1, <<4986, 7839, 6895, 5510, 1>>, -52>>>>,
      <<<<1, <<4999, 5721, 7652, 6196, 1>>, -107>>, <<1, <<5037, 2774, 2022, 5585, 1>>, -52>>>>,
      <<<<-1, <<6650, 5774, 978, 247, 1>>, -106>>, <<1, <<5734, 3181, 458, 5660, 1>>, -52>>>>,
      <<<<-1, <<3770, 5861, 5717, 2951, 1>>, -110>>, <<1, <<5627, 632, 2222, 5735, 1>>, -52>>>>,
      <<<<-1, <<5696, 3383, 911, 328, 1>>, -106>>, <<1, <<6458, 3882, 7331, 5810, 1>>, -52>>>>,
      <<<<-1, <<4916, 1388, 7438, 4525, 1>>, -109>>, <<1, <<7751, 6106, 7612, 5886, 1>>, -52>>>>,
      <<<<-1, <<2613, 6852, 6298, 989, 1>>, -106>>, <<1, <<1610, 1288, 3084, 5963, 1>>, -52>>>>,
      <<<<1, <<7629, 4862, 5570, 2559, 1>>, -108>>, <<1, <<466, 606, 1956, 6040, 1>>, -52>>>>,
      <<<<-1, <<6316, 5268, 7934, 891, 1>>, -106>>, <<1, <<7689, 7864, 4246, 6117, 1>>, -52>>>>,
      <<<<1, <<3251, 1400, 2956, 1757, 1>>, -108>>, <<1, <<4764, 3114, 1783, 6195, 1>>, -52>>>>,
      <<<<1, <<7572, 1279, 3223, 7622, 1>>, -107>>, <<1, <<4218, 8190, 2775, 6273, 1>>, -52>>>>,
      <<<<1, <<6572, 2122, 1012, 2497, 1>>, -107>>, <<1, <<4427, 4798, 7243, 6351, 1>>, -52>>>>,
      <<<<1, <<6759, 624, 3022, 1947, 1>>, -109>>, <<1, <<1973, 55, 7013, 6430, 1>>, -52>>>>,
      <<<<1, <<6504, 1168, 2843, 3798, 1>>, -109>>, <<1, <<4201, 1916, 2103, 6510, 1>>, -52>>>>,
      <<<<-1, <<5586, 7781, 1568, 276, 1>>, -107>>, <<1, <<1018, 2798, 725, 6590, 1>>, -52>>>>,
      <<<<-1, <<6767, 8191, 5967, 8026, 1>>, -107>>, <<1, <<2428, 4156, 2898, 6670, 1>>, -52>>>>,
      <<<<-1, <<2377, 941, 2958, 27, 1>>, -106>>, <<1, <<2546, 108, 450, 6751, 1>>, -52>>>>,
      <<<<1, <<1959, 4584, 361, 2375, 1>>, -108>>, <<1, <<1159, 2013, 1591, 6832, 1>>, -52>>>>,
      <<<<-1, <<527, 513, 1928, 1315, 1>>, -107>>, <<1, <<920, 5708, 6341, 6913, 1>>, -52>>>>,
      <<<<1, <<4780, 3596, 5173, 7348, 1>>, -107>>, <<1, <<4741, 7897, 6528, 6995, 1>>, -52>>>>,
      <<<<1, <<2891, 11, 5739, 2164, 1>>, -107>>, <<1, <<5216, 6157, 2172, 7078, 1>>, -52>>>>,
      <<<<-1, <<7711, 7585, 2113, 1450, 1>>, -107>>, <<1, <<7007, 7132, 1484, 7161, 1>>, -52>>>>,
      <<<<-1, <<3529, 6712, 3662, 4693, 1>>, -107>>, <<1, <<297, 1965, 4485, 7244, 1>>, -52>>>>,
      <<<<1, <<2259, 468, 280, 2412, 1>>, -108>>, <<1, <<8182, 7257, 3001, 7328, 1>>, -52>>>>,
      <<<<1, <<4721, 3307, 6932, 1931, 1>>, -107>>, <<1, <<3203, 7738, 5246, 7412, 1>>, -52>>>>,
      <<<<-1, <<4592, 7836, 1187, 8174, 1>>, -107>>, <<1, <<4314, 5412, 3048, 7497, 1>>, -52>>>>,
      <<<<-1, <<5245, 4379, 1592, 7005, 1>>, -107>>, <<1, <<2033, 3187, 4619, 7582, 1>>, -52>>>>,
      <<<<1, <<8, 3409, 3856, 7559, 1>>, -107>>, <<1, <<6695, 4874, 1787, 7668, 1>>, -52>>>>,
      <<<<1, <<2866, 7503, 1328, 2135, 1>>, -107>>, <<1, <<6807, 7005, 2765, 7754, 1>>, -52>>>>,
      <<<<1, <<1518, 3724, 2636, 5321, 1>>, -107>>, <<1, <<1344, 7026, 7574, 7840, 1>>, -52>>>>,
      <<<<-1, <<1005, 479, 3769, 7279, 1>>, -107>>, <<1, <<7700, 3301, 8043, 7927, 1>>, -52>>>>,
      <<<<1, <<3485, 3214, 3795, 3858, 1>>, -108>>, <<1, <<4312, 3316, 4192, 8015, 1>>, -52>>>>,
      <<<<1, <<3209, 2822, 4176, 1547, 1>>, -110>>, <<1, <<4593, 7291, 4234, 8103, 1>>, -52>>>>>>

\* pow places x against 0x3fe6955500000000, about 0.7057: the fraction bits
\* of that number.
PowLogOff == BShl(BFromInt(431445), 32)

\* x = z * 2^k with z in [0.7057, 1.4114), and the interval i of z.
PowLogSplit(x) ==
    LET one == BShl(<<1>>, MantissaBits - 1)
        above == BCmp(x[2], BAdd(one, PowLogOff)) >= 0
        k == x[3] + (IF above THEN MantissaBits ELSE MantissaBits - 1)
        frac == IF above THEN BSub(x[2], BAdd(one, PowLogOff)) ELSE BSub(x[2], PowLogOff)
    IN  [k |-> k, i |-> BLimb(BShr(frac, 45), 1), z |-> <<1, x[2], x[3] - k>>]

\* log_inline: log(x) as lhi + llo. Each step below binds the values the next
\* steps read more than once.
PowLogTable(s) ==
    [kd |-> FFromInt(s.k), z |-> s.z, tab |-> PowLogTab[s.i + 1]]

PowLogReduce(v) ==
    [r |-> FFma(v.z, v.tab[1], FNeg(FOne)),
     t1 |-> FFma(v.kd, Ln2hi, v.tab[2]),
     lo1 |-> FFma(v.kd, Ln2lo, v.tab[3])]

PowLogLinear(v) ==
    [ar |-> FMul(v.r, PowLogPoly[1]),
     t2 |-> FAdd(v.r, v.t1),
     q1 |-> FFma(v.r, PowLogPoly[3], PowLogPoly[2]),
     q2 |-> FFma(v.r, PowLogPoly[5], PowLogPoly[4]),
     q3 |-> FFma(v.r, PowLogPoly[7], PowLogPoly[6])] @@ v

PowLogSquare(v) ==
    [ar2 |-> FMul(v.r, v.ar),
     lo2 |-> FAdd(FSub(v.t1, v.t2), v.r)] @@ v

PowLogCube(v) ==
    [ar3 |-> FMul(v.r, v.ar2),
     lo3 |-> FFma(v.ar, v.r, FNeg(v.ar2)),
     hi |-> FAdd(v.t2, v.ar2),
     q4 |-> FFma(v.q3, v.ar2, v.q2)] @@ v

PowLogTail(v) ==
    [hi |-> v.hi,
     lo |-> FFma(v.ar3, FFma(v.ar2, v.q4, v.q1),
                 FAdd(FAdd(FAdd(v.lo1, v.lo2), v.lo3),
                      FAdd(FSub(v.t2, v.hi), v.ar2)))]

PowLogSum(v) == [lhi |-> FAdd(v.hi, v.lo)] @@ v

PowLogResult(v) == [lhi |-> v.lhi, llo |-> FAdd(FSub(v.hi, v.lhi), v.lo)]

log_inline(x) ==
    The({PowLogResult(sum) :
         sum \in {PowLogSum(tail) :
         tail \in {PowLogTail(cube) :
         cube \in {PowLogCube(square) :
         square \in {PowLogSquare(linear) :
         linear \in {PowLogLinear(reduced) :
         reduced \in {PowLogReduce(entry) :
         entry \in {PowLogTable(split) :
         split \in {PowLogSplit(x)}}}}}}}}})

\* exp_inline: exp(ehi + elo). kd is ehi * 128 / ln 2 rounded to an integer ki,
\* and the result is 2^(ki div 128) * scale * (1 + tail + the polynomial of r).
ExpRound(v) ==
    [kd |-> FSub(FFma(v.ehi, InvLn2N, Shift), Shift)] @@ v

ExpReduce(v) ==
    [ki |-> FToInt(v.kd),
     r |-> FAdd(v.elo, FFma(v.kd, NegLn2loN, FFma(v.kd, NegLn2hiN, v.ehi)))]

ExpSquare(v) == [r2 |-> FMul(v.r, v.r)] @@ v

ExpPolynomial(v) ==
    [ki |-> v.ki,
     tmp |-> FFma(FFma(v.r, ExpPoly[4], ExpPoly[3]), FMul(v.r2, v.r2),
                  FFma(FFma(v.r, ExpPoly[2], ExpPoly[1]), v.r2,
                       FAdd(v.r, ExpTab[(v.ki % 128) + 1][1])))]

ExpScale(ki) ==
    LET scale == ExpTab[(ki % 128) + 1][2]
    IN  <<1, scale[2], scale[3] + (ki \div 128)>>

ExpResult(v) == FFma(ExpScale(v.ki), v.tmp, ExpScale(v.ki))

exp_inline(v) ==
    IF v.ehi[1] = 0 \/ v.ehi[3] < -54 - (MantissaBits - 1) THEN FAdd(FOne, v.ehi)
    ELSE The({ExpResult(polynomial) :
              polynomial \in {ExpPolynomial(square) :
              square \in {ExpSquare(reduced) :
              reduced \in {ExpReduce(rounded) :
              rounded \in {ExpRound(v)}}}}})

PowProduct(y, l) ==
    The({[ehi |-> ehi, elo |-> FFma(y, l.llo, FFma(l.lhi, y, FNeg(ehi)))] :
             ehi \in {FMul(y, l.lhi)}})

\* pow(x, y) for x > 0.
pow(x, y) ==
    The({exp_inline(product) :
         product \in {PowProduct(y, l) : l \in {log_inline(x)}}})

----------------------------------------------------------------------------
\* Scalar coefficients: a rational <<numerator, denominator>> or a float
\* <<sign, significand, exponent>>. An operation with a float operand is a float
\* operation, as in Python; a scalar is zero when its first component is 0.

IsFloat(p) == Len(p) = 3

\* float(p) of a rational p.
ToFloat(p) ==
    IF IsFloat(p) THEN p
    ELSE IF p[2] = 1 THEN FFromInt(p[1])
    ELSE FDiv(FFromInt(p[1]), FFromInt(p[2]))

RAdd(p, q) ==
    IF IsFloat(p) \/ IsFloat(q) THEN FAdd(ToFloat(p), ToFloat(q))
    ELSE RNorm(p[1] * q[2] + q[1] * p[2], p[2] * q[2])
RMul(p, q) ==
    IF IsFloat(p) \/ IsFloat(q) THEN FMul(ToFloat(p), ToFloat(q))
    ELSE RNorm(p[1] * q[1], p[2] * q[2])
RNeg(p) == IF IsFloat(p) THEN FNeg(p) ELSE <<-p[1], p[2]>>

----------------------------------------------------------------------------
\* PEPit Points: linear combinations of leaf Points. A Point is the set of its
\* <<leaf, coefficient>> pairs with non-zero coefficient (its decomposition_dict);
\* a leaf is identified by the value of Point.counter when it was created.

PLeaves(p) == {e[1] : e \in p}
PCoef(p, l) == IF l \in PLeaves(p) THEN (CHOOSE e \in p : e[1] = l)[2] ELSE RZero
PPrune(p) == {e \in p : e[2][1] # 0}
LeafPoint(l) == {<<l, ROne>>}
ZeroPoint == {}
PAddValues(p, q) == PPrune({<<l, RAdd(PCoef(p, l), PCoef(q, l))>> : l \in PLeaves(p) \cup PLeaves(q)})
PAdd(p, q) == The({PAddValues(v, w) : v \in {p}, w \in {q}})
PScaleValues(r, p) == PPrune({<<e[1], RMul(r, e[2])>> : e \in p})
PScale(r, p) == The({PScaleValues(v, w) : v \in {r}, w \in {p}})
PSub(p, q) == PAdd(p, PScale(RNeg(ROne), q))

\* A recorded triple (x, g, f); f is the identity of a leaf Expression.
Triple(x, g, f) == [x |-> x, g |-> g, f |-> f]

----------------------------------------------------------------------------
\* The function object (PEPit.Function) as the code under src/ uses it.

\* Function._is_already_evaluated_on_point: the first recorded triple at point.
IsEvaluated(point) == \E k \in 1..Len(list_of_points) : list_of_points[k].x = point
FirstAt(point) ==
    list_of_points[CHOOSE k \in 1..Len(list_of_points) :
        /\ list_of_points[k].x = point
        /\ \A m \in 1..(k - 1) : list_of_points[m].x # point]

\* Function.stationary_point(): a new leaf point, the zero subgradient, a new
\* leaf value; appended to both lists.
stationary_point ==
    LET point == LeafPoint(point_counter)
        t3 == Triple(point, ZeroPoint, expr_counter)
    IN  /\ list_of_points' = Append(list_of_points, t3)
        /\ list_of_stationary_points' = Append(list_of_stationary_points, t3)
        /\ point_counter' = point_counter + 1
        /\ expr_counter' = expr_counter + 1
        /\ ret' = <<point>>
        /\ UNCHANGED <<list_of_constraints, reuse_gradient, L>>

\* Function.oracle(point): returns <<g, f>>. An evaluated point with
\* reuse_gradient gives back the recorded pair; otherwise a new leaf subgradient
\* (and a new leaf value unless the point already has one) is recorded.
oracle(point) ==
    IF IsEvaluated(point) /\ reuse_gradient
    THEN /\ ret' = <<FirstAt(point).g, FirstAt(point).f>>
         /\ UNCHANGED function_vars
    ELSE LET g == LeafPoint(point_counter)
             f == IF IsEvaluated(point) THEN FirstAt(point).f ELSE expr_counter
         IN  /\ list_of_points' = Append(list_of_points, Triple(point, g, f))
             /\ point_counter' = point_counter + 1
             /\ expr_counter' = IF IsEvaluated(point) THEN expr_counter ELSE expr_counter + 1
             /\ ret' = <<g, f>>
             /\ UNCHANGED <<list_of_stationary_points, list_of_constraints, reuse_gradient, L>>

\* Function.gradient(point): the subgradient of one oracle call.
gradient(point) ==
    IF IsEvaluated(point) /\ reuse_gradient
    THEN /\ ret' = <<FirstAt(point).g>>
         /\ UNCHANGED function_vars
    ELSE LET g == LeafPoint(point_counter)
             f == IF IsEvaluated(point) THEN FirstAt(point).f ELSE expr_counter
         IN  /\ list_of_points' = Append(list_of_points, Triple(point, g, f))
             /\ point_counter' = point_counter + 1
             /\ expr_counter' = IF IsEvaluated(point) THEN expr_counter ELSE expr_counter + 1
             /\ ret' = <<g>>
             /\ UNCHANGED <<list_of_stationary_points, list_of_constraints, reuse_gradient, L>>

\* Function.value(point): the recorded value of an evaluated point, else the
\* value of one oracle call.
value(point) ==
    IF IsEvaluated(point)
    THEN /\ ret' = <<FirstAt(point).f>>
         /\ UNCHANGED function_vars
    ELSE /\ list_of_points' = Append(list_of_points,
                                     Triple(point, LeafPoint(point_counter), expr_counter))
         /\ point_counter' = point_counter + 1
         /\ expr_counter' = expr_counter + 1
         /\ ret' = <<expr_counter>>
         /\ UNCHANGED <<list_of_stationary_points, list_of_constraints, reuse_gradient, L>>

----------------------------------------------------------------------------
\* ConvexQGFunction.add_class_constraints.

\* Function.add_constraint, called once per constraint in order: each one is
\* appended to the list of registered constraints.
add_constraints(registered, emitted) == registered \o emitted

\* The index pairs <<i, j>>, i in 1..a, j in 1..b, in nested-loop order.
PairSeq(a, b) == [q \in 1..(a * b) |-> <<((q - 1) \div b) + 1, ((q - 1) % b) + 1>>]

\* Mutant of the first loop: the test point_i != point_j is left out.
QGConstraints_no_test(S, P, Lq) ==
    LET pairs == PairSeq(Len(S), Len(P))
    IN  The({[k \in 1..Len(pairs) |->
                 [kind |-> "qg", left |-> S[pairs[k][1]], right |-> P[pairs[k][2]], coef |-> c]] :
                     c \in {FDiv(FFromInt(1), FFromInt(2 * Lq))}})

\* Mutant of the first loop: the roles of the two triples are exchanged, the
\* stationary triple supplying the subgradient of the correction term.
QGConstraints_swapped(S, P, Lq) ==
    LET pairs == SelectSeq(PairSeq(Len(S), Len(P)), LAMBDA q : S[q[1]] # P[q[2]])
    IN  The({[k \in 1..Len(pairs) |->
                 [kind |-> "qg", left |-> P[pairs[k][2]], right |-> S[pairs[k][1]], coef |-> c]] :
                     c \in {FDiv(FFromInt(1), FFromInt(2 * Lq))}})

\* First loop: for each stationary triple i and each recorded triple j that is
\* not equal to it,  fi - fj >= gj*(xi - xj) + 1/(2L) * gj^2, the coefficient
\* 1 / (2 * self.L) being a Python float.
QGConstraints(S, P, Lq) ==
    LET pairs == SelectSeq(PairSeq(Len(S), Len(P)), LAMBDA q : S[q[1]] # P[q[2]])
    IN  The({[k \in 1..Len(pairs) |->
                 [kind |-> "qg", left |-> S[pairs[k][1]], right |-> P[pairs[k][2]], coef |-> c]] :
                     c \in {FDiv(FFromInt(1), FFromInt(2 * Lq))}})

\* Mutant of the second loop: only the pairs i < j.
ConvexConstraints_unordered(P) ==
    LET pairs == SelectSeq(PairSeq(Len(P), Len(P)), LAMBDA q : q[1] < q[2])
    IN  [k \in 1..Len(pairs) |->
            [kind |-> "cvx", left |-> P[pairs[k][1]], right |-> P[pairs[k][2]],
             coef |-> RZero]]

\* Mutant of the second loop: the inner loop skips the first recorded triple.
ConvexConstraints_skip_first(P) ==
    LET pairs == SelectSeq(PairSeq(Len(P), Len(P)), LAMBDA q : q[1] # q[2] /\ q[2] # 1)
    IN  [k \in 1..Len(pairs) |->
            [kind |-> "cvx", left |-> P[pairs[k][1]], right |-> P[pairs[k][2]],
             coef |-> RZero]]

\* Second loop: for each pair of distinct indices,  fi - fj >= gj*(xi - xj).
ConvexConstraints(P) ==
    LET pairs == SelectSeq(PairSeq(Len(P), Len(P)), LAMBDA q : q[1] # q[2])
    IN  [k \in 1..Len(pairs) |->
            [kind |-> "cvx", left |-> P[pairs[k][1]], right |-> P[pairs[k][2]],
             coef |-> RZero]]

\* The constraints one call hands to add_constraint, in order.
class_constraints ==
    QGConstraints(list_of_stationary_points, list_of_points, L)
        \o ConvexConstraints(list_of_points)

\* Mutant of add_class_constraints: a constraint already registered is not
\* registered again.
add_class_constraints_once ==
    LET fresh == SelectSeq(class_constraints,
                           LAMBDA c : \A k \in 1..Len(list_of_constraints) :
                                          list_of_constraints[k] # c)
    IN  /\ list_of_constraints' = add_constraints(list_of_constraints, fresh)
        /\ calls' = Append(calls, [points |-> list_of_points,
                                   stationary |-> list_of_stationary_points,
                                   emitted |-> fresh,
                                   before |-> list_of_constraints,
                                   after |-> list_of_constraints'])
        /\ UNCHANGED <<list_of_points, list_of_stationary_points, reuse_gradient, L,
                       point_counter, expr_counter>>

\* One call of add_class_constraints: every emitted constraint is appended to
\* list_of_constraints (Function.add_constraint).
add_class_constraints ==
    /\ list_of_constraints' = add_constraints(list_of_constraints, class_constraints)
    /\ calls' = Append(calls, [points |-> list_of_points,
                               stationary |-> list_of_stationary_points,
                               emitted |-> class_constraints,
                               before |-> list_of_constraints,
                               after |-> list_of_constraints'])
    /\ UNCHANGED <<list_of_points, list_of_stationary_points, reuse_gradient, L,
                   point_counter, expr_counter>>

----------------------------------------------------------------------------
\* SpecFunction: a caller drives one function object through its interface.

IsPrefix(s, r) == Len(s) <= Len(r) /\ \A k \in 1..Len(s) : s[k] = r[k]

\* The points a caller can hold: the location of a recorded triple or a new leaf.
RecordedPoints == {list_of_points[k].x : k \in 1..Len(list_of_points)}
KnownPoints == RecordedPoints \cup (IF "x" \in DOMAIN locals THEN {locals["x"]} ELSE {})

api_unchanged == UNCHANGED <<list_of_conditions, list_of_performance_metrics, algo, n,
                             pc, locals, solve_calls>>

InitFunction ==
    /\ list_of_points = <<>>
    /\ list_of_stationary_points = <<>>
    /\ list_of_constraints = <<>>
    /\ reuse_gradient \in BOOLEAN
    /\ L \in Ls
    /\ point_counter = 0
    /\ expr_counter = 0
    /\ list_of_conditions = <<>>
    /\ list_of_performance_metrics = <<>>
    /\ algo = "api"
    /\ n = 0
    /\ pc = "api"
    /\ locals = <<>>
    /\ ret = <<>>
    /\ calls = <<>>
    /\ solve_calls = 0
    /\ points_grew = TRUE

ApiStationaryPoint ==
    /\ Len(list_of_points) < MaxPoints
    /\ stationary_point
    /\ points_grew' = (points_grew /\ IsPrefix(list_of_points, list_of_points'))
    /\ UNCHANGED calls
    /\ api_unchanged

\* The caller makes a new leaf Point (as PEP.set_initial_point or Point() does) and
\* keeps it; one unevaluated point is held at a time.
ApiNewPoint ==
    /\ Len(list_of_points) < MaxPoints
    /\ "x" \in DOMAIN locals => locals["x"] \in RecordedPoints
    /\ locals' = ("x" :> LeafPoint(point_counter))
    /\ point_counter' = point_counter + 1
    /\ ret' = <<>>
    /\ UNCHANGED <<list_of_points, list_of_stationary_points, list_of_constraints,
                   reuse_gradient, L, expr_counter, calls, points_grew>>
    /\ UNCHANGED <<list_of_conditions, list_of_performance_metrics, algo, n, pc,
                   solve_calls>>

ApiOracle ==
    /\ Len(list_of_points) < MaxPoints
    /\ \E point \in KnownPoints : oracle(point)
    /\ points_grew' = (points_grew /\ IsPrefix(list_of_points, list_of_points'))
    /\ UNCHANGED calls
    /\ api_unchanged

ApiGradient ==
    /\ Len(list_of_points) < MaxPoints
    /\ \E point \in KnownPoints : gradient(point)
    /\ points_grew' = (points_grew /\ IsPrefix(list_of_points, list_of_points'))
    /\ UNCHANGED calls
    /\ api_unchanged

ApiValue ==
    /\ Len(list_of_points) < MaxPoints
    /\ \E point \in KnownPoints : value(point)
    /\ points_grew' = (points_grew /\ IsPrefix(list_of_points, list_of_points'))
    /\ UNCHANGED calls
    /\ api_unchanged

ApiAddClassConstraints ==
    /\ Len(calls) < MaxCalls
    /\ add_class_constraints
    /\ UNCHANGED <<ret, points_grew>>
    /\ api_unchanged

NextFunction ==
    \/ ApiStationaryPoint
    \/ ApiNewPoint
    \/ ApiOracle
    \/ ApiGradient
    \/ ApiValue
    \/ ApiAddClassConstraints

SpecFunction == InitFunction /\ [][NextFunction]_vars

----------------------------------------------------------------------------
\* The problem harness (PEPit.PEP) and primitive step the unrollers call.

\* PEP.set_initial_point(): a new leaf Point, LeafPoint(point_counter).
set_initial_point ==
    /\ point_counter' = point_counter + 1
    /\ UNCHANGED <<list_of_points, list_of_stationary_points, list_of_constraints,
                   reuse_gradient, L, expr_counter>>

\* PEP.set_initial_condition(point ** 2 <= 1).
set_initial_condition(point) ==
    list_of_conditions' = Append(list_of_conditions, [norm2 |-> point, bound |-> 1])

\* PEP.set_performance_metric(f - fs).
set_performance_metric(f, fs) ==
    list_of_performance_metrics' =
        Append(list_of_performance_metrics, [plus |-> f, minus |-> fs])

\* PEP.solve(): the class constraints of the declared function are generated,
\* once, and the solver's optimal value for the registered metrics comes back.
solve ==
    /\ add_class_constraints
    /\ solve_calls' = solve_calls + 1

SolvedValue == [worst_case_of |-> list_of_performance_metrics]

\* exact_linesearch_step(x0, f, directions): a new leaf point x, one oracle call
\* on it, and the constraints gx*d = 0 for each direction d and gx*(x0 - x) = 0;
\* returns <<x, gx, fx>>.
exact_linesearch_step(x0, directions) ==
    LET x == LeafPoint(point_counter)
        gx == LeafPoint(point_counter + 1)
        fx == expr_counter
    IN  /\ list_of_points' = Append(list_of_points, Triple(x, gx, fx))
        /\ point_counter' = point_counter + 2
        /\ expr_counter' = expr_counter + 1
        /\ list_of_constraints' =
               add_constraints(list_of_constraints,
                   [k \in 1..Len(directions) |->
                       [kind |-> "orth", left |-> gx, right |-> directions[k],
                        coef |-> RZero]]
                   \o <<[kind |-> "orth", left |-> gx, right |-> PSub(x0, x),
                         coef |-> RZero]>>)
        /\ ret' = <<x, gx, fx>>
        /\ UNCHANGED <<list_of_stationary_points, reuse_gradient, L>>

----------------------------------------------------------------------------
\* Spec: one run of one unroller. pc names the statement about to run; locals
\* maps each bound local variable to its value (an unbound name is not in its
\* domain, and reading it raises).

Bound(name) == name \in DOMAIN locals
Bind(name, v) == (name :> v) @@ locals
At(a, label) == algo = a /\ pc = label
Track == points_grew' = (points_grew /\ IsPrefix(list_of_points, list_of_points'))
no_problem_change == UNCHANGED <<list_of_conditions, list_of_performance_metrics>>
no_solve == UNCHANGED <<calls, solve_calls>>
run_unchanged == UNCHANGED <<algo, n>>

Init ==
    /\ list_of_points = <<>>
    /\ list_of_stationary_points = <<>>
    /\ list_of_constraints = <<>>
    /\ reuse_gradient = FALSE
    /\ L \in Ls
    /\ point_counter = 0
    /\ expr_counter = 0
    /\ list_of_conditions = <<>>
    /\ list_of_performance_metrics = <<>>
    /\ algo \in {"cg", "gd", "hb"}
    /\ n \in 0..MaxN
    /\ pc = "xs"
    /\ locals = <<>>
    /\ ret = <<>>
    /\ calls = <<>>
    /\ solve_calls = 0
    /\ points_grew = TRUE

\* u / 2 + sqrt((u / 2) ** 2 + 2) in Python floats; (u / 2) ** 2 is
\* pow(u / 2, 2.0), which is not always the float product of u / 2 with itself.
NextU(u) ==
    The({FAdd(half, FSqrt(FAdd(pow(half, FFromInt(2)), FFromInt(2)))) :
             half \in {FDiv(u, FFromInt(2))}})

\* gamma = 1 / (L * u)
gamma(Lq, u) == FDiv(FFromInt(1), FMul(FFromInt(Lq), u))

\* theoretical_tau = L / (2 * u)
theoretical_tau(Lq, u) == FDiv(FFromInt(Lq), FMul(FFromInt(2), u))

\* ---- gradient descent with decreasing steps --------------------------------

\* xs = func.stationary_point()
GD_StationaryPoint ==
    /\ At("gd", "xs")
    /\ stationary_point
    /\ locals' = Bind("xs", ret'[1])
    /\ pc' = "fs"
    /\ Track /\ no_problem_change /\ no_solve /\ run_unchanged

\* Mutant of fs = func.value(xs): the value is taken from a second
\* stationary_point call.
GD_ValueXs_second_stationary ==
    /\ At("gd", "fs")
    /\ stationary_point
    /\ locals' = Bind("fs", list_of_points'[Len(list_of_points')].f)
    /\ pc' = "x0"
    /\ Track /\ no_problem_change /\ no_solve /\ run_unchanged

\* fs = func.value(xs)
GD_ValueXs ==
    /\ At("gd", "fs")
    /\ value(locals["xs"])
    /\ locals' = Bind("fs", ret'[1])
    /\ pc' = "x0"
    /\ Track /\ no_problem_change /\ no_solve /\ run_unchanged

\* x = problem.set_initial_point()
GD_SetInitialPoint ==
    /\ At("gd", "x0")
    /\ set_initial_point
    /\ locals' = Bind("x", LeafPoint(point_counter))
    /\ pc' = "oracle0"
    /\ UNCHANGED ret
    /\ Track /\ no_problem_change /\ no_solve /\ run_unchanged

\* g, f = func.oracle(x)
GD_Oracle0 ==
    /\ At("gd", "oracle0")
    /\ oracle(locals["x"])
    /\ locals' = ("g" :> ret'[1]) @@ ("f" :> ret'[2]) @@ locals
    /\ pc' = "condition"
    /\ Track /\ no_problem_change /\ no_solve /\ run_unchanged

\* problem.set_initial_condition((x - xs) ** 2 <= 1);  u = 1
GD_SetInitialCondition ==
    /\ At("gd", "condition")
    /\ set_initial_condition(PSub(locals["x"], locals["xs"]))
    /\ locals' = ("u" :> FFromInt(1)) @@ ("iter" :> 0) @@ locals
    /\ pc' = "loop"
    /\ UNCHANGED <<function_vars, ret, list_of_performance_metrics>>
    /\ Track /\ no_solve /\ run_unchanged

\* Mutant of the loop body: the step size is computed from u before u is advanced.
GD_LoopBody_stale_u ==
    /\ At("gd", "loop")
    /\ locals["iter"] < n
    /\ \E u \in {NextU(locals["u"])} :
       \E step \in {gamma(L, locals["u"])} :
       \E x \in {PSub(locals["x"], PScale(step, locals["g"]))} :
           /\ oracle(x)
           /\ locals' = ("i" :> locals["iter"]) @@ ("iter" :> locals["iter"] + 1)
                            @@ ("u" :> u) @@ ("gamma" :> step) @@ ("x" :> x)
                            @@ ("g" :> ret'[1]) @@ ("f" :> ret'[2]) @@ locals
    /\ pc' = "loop"
    /\ Track /\ no_problem_change /\ no_solve /\ run_unchanged

\* for i in range(n): u = u/2 + sqrt((u/2)**2 + 2); gamma = 1/(L*u);
\*                    x = x - gamma*g; g, f = func.oracle(x)
GD_LoopBody ==
    /\ At("gd", "loop")
    /\ locals["iter"] < n
    /\ \E u \in {NextU(locals["u"])} :
       \E step \in {gamma(L, u)} :
       \E x \in {PSub(locals["x"], PScale(step, locals["g"]))} :
           /\ oracle(x)
           /\ locals' = ("i" :> locals["iter"]) @@ ("iter" :> locals["iter"] + 1)
                            @@ ("u" :> u) @@ ("gamma" :> step) @@ ("x" :> x)
                            @@ ("g" :> ret'[1]) @@ ("f" :> ret'[2]) @@ locals
    /\ pc' = "loop"
    /\ Track /\ no_problem_change /\ no_solve /\ run_unchanged

\* theoretical_tau = L / (2 * u)
GD_TheoreticalTau ==
    /\ At("gd", "loop")
    /\ locals["iter"] = n
    /\ locals' = Bind("theoretical_tau", theoretical_tau(L, locals["u"]))
    /\ pc' = "metric"
    /\ UNCHANGED <<function_vars, ret>>
    /\ Track /\ no_problem_change /\ no_solve /\ run_unchanged

\* problem.set_performance_metric((f - fs))
GD_SetPerformanceMetric ==
    /\ At("gd", "metric")
    /\ set_performance_metric(locals["f"], locals["fs"])
    /\ pc' = "solve"
    /\ UNCHANGED <<function_vars, ret, locals, list_of_conditions>>
    /\ Track /\ no_solve /\ run_unchanged

\* pepit_tau = problem.solve(verbose=pepit_verbose)
GD_Solve ==
    /\ At("gd", "solve")
    /\ solve
    /\ locals' = Bind("pepit_tau", SolvedValue)
    /\ pc' = "return"
    /\ UNCHANGED ret
    /\ Track /\ no_problem_change /\ run_unchanged

\* return pepit_tau, theoretical_tau
GD_Return ==
    /\ At("gd", "return")
    /\ locals' = Bind("return", <<locals["pepit_tau"], locals["theoretical_tau"]>>)
    /\ pc' = "done"
    /\ UNCHANGED <<function_vars, ret>>
    /\ Track /\ no_problem_change /\ no_solve /\ run_unchanged

\* ---- heavy ball --------------------------------------------------------------

\* xs = func.stationary_point()
HB_StationaryPoint ==
    /\ At("hb", "xs")
    /\ stationary_point
    /\ locals' = Bind("xs", ret'[1])
    /\ pc' = "fs"
    /\ Track /\ no_problem_change /\ no_solve /\ run_unchanged

\* fs = func.value(xs)
HB_ValueXs ==
    /\ At("hb", "fs")
    /\ value(locals["xs"])
    /\ locals' = Bind("fs", ret'[1])
    /\ pc' = "x0"
    /\ Track /\ no_problem_change /\ no_solve /\ run_unchanged

\* x0 = problem.set_initial_point()
HB_SetInitialPoint ==
    /\ At("hb", "x0")
    /\ set_initial_point
    /\ locals' = Bind("x0", LeafPoint(point_counter))
    /\ pc' = "f0"
    /\ UNCHANGED ret
    /\ Track /\ no_problem_change /\ no_solve /\ run_unchanged

\* f0 = func.value(x0)
HB_ValueX0 ==
    /\ At("hb", "f0")
    /\ value(locals["x0"])
    /\ locals' = Bind("f0", ret'[1])
    /\ pc' = "condition"
    /\ Track /\ no_problem_change /\ no_solve /\ run_unchanged

\* problem.set_initial_condition((x0 - xs) ** 2 <= 1);  x_new = x0;  x_old = x0
HB_SetInitialCondition ==
    /\ At("hb", "condition")
    /\ set_initial_condition(PSub(locals["x0"], locals["xs"]))
    /\ locals' = ("x_new" :> locals["x0"]) @@ ("x_old" :> locals["x0"])
                     @@ ("iter" :> 0) @@ locals
    /\ pc' = "loop"
    /\ UNCHANGED <<function_vars, ret, list_of_performance_metrics>>
    /\ Track /\ no_solve /\ run_unchanged

\* The heavy-ball update x_new - 1/(L*(t+2)) * grad + t/(t+2) * (x_new - x_old);
\* the two quotients are Python floats.
HB_Update(t, x_new, x_old, grad) ==
    PAdd(PSub(x_new, PScale(FDiv(FFromInt(1), FFromInt(L * (t + 2))), grad)),
         PScale(FDiv(FFromInt(t), FFromInt(t + 2)), PSub(x_new, x_old)))

\* Mutant of the loop body: x_old is not shifted and stays the first iterate.
HB_LoopBody_no_shift ==
    /\ At("hb", "loop")
    /\ locals["iter"] < n
    /\ gradient(locals["x_new"])
    /\ LET t == locals["iter"]
           x_next == HB_Update(t, locals["x_new"], locals["x_old"], ret'[1])
       IN  locals' = ("t" :> t) @@ ("iter" :> t + 1) @@ ("x_next" :> x_next)
                         @@ ("x_new" :> x_next) @@ locals
    /\ pc' = "loop"
    /\ Track /\ no_problem_change /\ no_solve /\ run_unchanged

\* for t in range(n): x_next = x_new - 1/(L*(t+2)) * func.gradient(x_new)
\*                             + t/(t+2) * (x_new - x_old);
\*                    x_old = x_new;  x_new = x_next
HB_LoopBody ==
    /\ At("hb", "loop")
    /\ locals["iter"] < n
    /\ gradient(locals["x_new"])
    /\ LET t == locals["iter"]
           x_next == HB_Update(t, locals["x_new"], locals["x_old"], ret'[1])
       IN  locals' = ("t" :> t) @@ ("iter" :> t + 1) @@ ("x_next" :> x_next)
                         @@ ("x_old" :> locals["x_new"]) @@ ("x_new" :> x_next) @@ locals
    /\ pc' = "loop"
    /\ Track /\ no_problem_change /\ no_solve /\ run_unchanged

\* problem.set_performance_metric(func.value(x_new) - fs)
HB_SetPerformanceMetric ==
    /\ At("hb", "loop")
    /\ locals["iter"] = n
    /\ value(locals["x_new"])
    /\ set_performance_metric(ret'[1], locals["fs"])
    /\ pc' = "solve"
    /\ UNCHANGED <<locals, list_of_conditions>>
    /\ Track /\ no_solve /\ run_unchanged

\* pepit_tau = problem.solve(verbose=pepit_verbose)
HB_Solve ==
    /\ At("hb", "solve")
    /\ solve
    /\ locals' = Bind("pepit_tau", SolvedValue)
    /\ pc' = "tau"
    /\ UNCHANGED ret
    /\ Track /\ no_problem_change /\ run_unchanged

\* theoretical_tau = L / (2 * (n+1))
HB_TheoreticalTau ==
    /\ At("hb", "tau")
    /\ locals' = Bind("theoretical_tau", FDiv(FFromInt(L), FFromInt(2 * (n + 1))))
    /\ pc' = "return"
    /\ UNCHANGED <<function_vars, ret>>
    /\ Track /\ no_problem_change /\ no_solve /\ run_unchanged

\* return pepit_tau, theoretical_tau
HB_Return ==
    /\ At("hb", "return")
    /\ locals' = Bind("return", <<locals["pepit_tau"], locals["theoretical_tau"]>>)
    /\ pc' = "done"
    /\ UNCHANGED <<function_vars, ret>>
    /\ Track /\ no_problem_change /\ no_solve /\ run_unchanged

\* ---- conjugate gradient -------------------------------------------------------

\* xs = func.stationary_point()
CG_StationaryPoint ==
    /\ At("cg", "xs")
    /\ stationary_point
    /\ locals' = Bind("xs", ret'[1])
    /\ pc' = "fs"
    /\ Track /\ no_problem_change /\ no_solve /\ run_unchanged

\* fs = func.value(xs)
CG_ValueXs ==
    /\ At("cg", "fs")
    /\ value(locals["xs"])
    /\ locals' = Bind("fs", ret'[1])
    /\ pc' = "x0"
    /\ Track /\ no_problem_change /\ no_solve /\ run_unchanged

\* x0 = problem.set_initial_point()
CG_SetInitialPoint ==
    /\ At("cg", "x0")
    /\ set_initial_point
    /\ locals' = Bind("x0", LeafPoint(point_counter))
    /\ pc' = "condition"
    /\ UNCHANGED ret
    /\ Track /\ no_problem_change /\ no_solve /\ run_unchanged

\* problem.set_initial_condition((x0 - xs) ** 2 <= 1);  x_new = x0
CG_SetInitialCondition ==
    /\ At("cg", "condition")
    /\ set_initial_condition(PSub(locals["x0"], locals["xs"]))
    /\ locals' = Bind("x_new", locals["x0"])
    /\ pc' = "oracle0"
    /\ UNCHANGED <<function_vars, ret, list_of_performance_metrics>>
    /\ Track /\ no_solve /\ run_unchanged

\* g0, f0 = func.oracle(x0);  span = [g0]
CG_Oracle0 ==
    /\ At("cg", "oracle0")
    /\ oracle(locals["x0"])
    /\ locals' = ("g0" :> ret'[1]) @@ ("f0" :> ret'[2]) @@ ("span" :> <<ret'[1]>>)
                     @@ ("iter" :> 0) @@ locals
    /\ pc' = "loop"
    /\ Track /\ no_problem_change /\ no_solve /\ run_unchanged

\* for i in range(n): x_old = x_new;
\*                    x_new, gx, fx = exact_linesearch_step(x_new, func, span);
\*                    span.append(gx);  span.append(x_old - x_new)
CG_LoopBody ==
    /\ At("cg", "loop")
    /\ locals["iter"] < n
    /\ exact_linesearch_step(locals["x_new"], locals["span"])
    /\ LET x_old == locals["x_new"]
       IN  locals' = ("i" :> locals["iter"]) @@ ("iter" :> locals["iter"] + 1)
                         @@ ("x_old" :> x_old) @@ ("x_new" :> ret'[1])
                         @@ ("gx" :> ret'[2]) @@ ("fx" :> ret'[3])
                         @@ ("span" :> locals["span"] \o <<ret'[2], PSub(x_old, ret'[1])>>)
                         @@ locals
    /\ pc' = "loop"
    /\ Track /\ no_problem_change /\ no_solve /\ run_unchanged

\* problem.set_performance_metric(fx - fs), fx bound by the loop body
CG_SetPerformanceMetric ==
    /\ At("cg", "loop")
    /\ locals["iter"] = n
    /\ Bound("fx")
    /\ set_performance_metric(locals["fx"], locals["fs"])
    /\ pc' = "solve"
    /\ UNCHANGED <<function_vars, ret, locals, list_of_conditions>>
    /\ Track /\ no_solve /\ run_unchanged

\* problem.set_performance_metric(fx - fs) when the loop body never ran: fx is
\* an unbound local and reading it raises UnboundLocalError, which ends the run.
CG_UnboundFx ==
    /\ At("cg", "loop")
    /\ locals["iter"] = n
    /\ ~Bound("fx")
    /\ pc' = "raised"
    /\ UNCHANGED <<function_vars, ret, locals>>
    /\ Track /\ no_problem_change /\ no_solve /\ run_unchanged

\* pepit_tau = problem.solve(verbose=pepit_verbose)
CG_Solve ==
    /\ At("cg", "solve")
    /\ solve
    /\ locals' = Bind("pepit_tau", SolvedValue)
    /\ pc' = "tau"
    /\ UNCHANGED ret
    /\ Track /\ no_problem_change /\ run_unchanged

\* theoretical_tau = L/(2*(n+1))
CG_TheoreticalTau ==
    /\ At("cg", "tau")
    /\ locals' = Bind("theoretical_tau", FDiv(FFromInt(L), FFromInt(2 * (n + 1))))
    /\ pc' = "return"
    /\ UNCHANGED <<function_vars, ret>>
    /\ Track /\ no_problem_change /\ no_solve /\ run_unchanged

\* return pepit_tau, theoretical_tau
CG_Return ==
    /\ At("cg", "return")
    /\ locals' = Bind("return", <<locals["pepit_tau"], locals["theoretical_tau"]>>)
    /\ pc' = "done"
    /\ UNCHANGED <<function_vars, ret>>
    /\ Track /\ no_problem_change /\ no_solve /\ run_unchanged

Next ==
    \/ GD_StationaryPoint
    \/ GD_ValueXs
    \/ GD_SetInitialPoint
    \/ GD_Oracle0
    \/ GD_SetInitialCondition
    \/ GD_LoopBody
    \/ GD_TheoreticalTau
    \/ GD_SetPerformanceMetric
    \/ GD_Solve
    \/ GD_Return
    \/ HB_StationaryPoint
    \/ HB_ValueXs
    \/ HB_SetInitialPoint
    \/ HB_ValueX0
    \/ HB_SetInitialCondition
    \/ HB_LoopBody
    \/ HB_SetPerformanceMetric
    \/ HB_Solve
    \/ HB_TheoreticalTau
    \/ HB_Return
    \/ CG_StationaryPoint
    \/ CG_ValueXs
    \/ CG_SetInitialPoint
    \/ CG_SetInitialCondition
    \/ CG_Oracle0
    \/ CG_LoopBody
    \/ CG_SetPerformanceMetric
    \/ CG_UnboundFx
    \/ CG_Solve
    \/ CG_TheoreticalTau
    \/ CG_Return

Spec == Init /\ [][Next]_vars

----------------------------------------------------------------------------
\* Properties of add_class_constraints, checked under SpecFunction.

SeqSet(s) == {s[k] : k \in 1..Len(s)}
Count(s, kind) == Cardinality({k \in 1..Len(s) : s[k].kind = kind})
CallIds == 1..Len(calls)

\* C1: one call of add_class_constraints on lists S and P, every element of S
\* being in P, registers |S|*(|P|-1) one-sided constraints (first loop) followed by
\* |P|*(|P|-1) plain convexity constraints (second loop), and nothing else.
C1_ConstraintCount ==
    \A c \in CallIds :
        LET S == calls[c].stationary
            P == calls[c].points
            E == calls[c].emitted
            nqg == Len(S) * (Len(P) - 1)
            ncvx == Len(P) * (Len(P) - 1)
        IN  SeqSet(S) \subseteq SeqSet(P) /\ Len(P) >= 1 =>
                /\ Count(E, "qg") = nqg
                /\ Count(E, "cvx") = ncvx
                /\ Len(E) = nqg + ncvx
                /\ \A k \in 1..Len(E) : E[k].kind = (IF k <= nqg THEN "qg" ELSE "cvx")
                /\ Len(calls[c].after) = Len(calls[c].before) + nqg + ncvx

\* C1 witness: a call made with two stationary triples among three recorded ones.
C1_Witness ==
    \E c \in CallIds :
        /\ Len(calls[c].stationary) = 2
        /\ Len(calls[c].points) = 3
        /\ Len(calls[c].emitted) = 10

\* C2: for every pair of indices i # j into P exactly one plain convexity
\* constraint has left triple P[i] and right triple P[j]; none pairs a triple with
\* itself; two recorded triples give two such constraints.
C2_OrderedPairs ==
    \A c \in CallIds :
        LET P == calls[c].points
            E == calls[c].emitted
        IN  /\ \A i, j \in 1..Len(P) :
                Cardinality({k \in 1..Len(E) :
                    E[k].kind = "cvx" /\ E[k].left = P[i] /\ E[k].right = P[j]})
                    = (IF i # j THEN 1 ELSE 0)
            /\ Len(P) = 2 => Count(E, "cvx") = 2

\* C2 witness: a call on two recorded triples emitted both orderings of the pair.
C2_Witness ==
    \E c \in CallIds :
        LET P == calls[c].points
            E == calls[c].emitted
        IN  /\ Len(P) = 2
            /\ \E k, m \in 1..Len(E) :
                /\ E[k].kind = "cvx" /\ E[k].left = P[1] /\ E[k].right = P[2]
                /\ E[m].kind = "cvx" /\ E[m].left = P[2] /\ E[m].right = P[1]

\* C3 as stated: in every one-sided constraint the left triple is stationary and
\* no stationary triple is the right operand.
C3_Original ==
    \A c \in CallIds :
        \A k \in 1..Len(calls[c].emitted) :
            LET e == calls[c].emitted[k]
            IN  e.kind = "qg" =>
                    /\ e.left \in SeqSet(calls[c].stationary)
                    /\ e.right \notin SeqSet(calls[c].stationary)

\* C3 amended: in every one-sided constraint the left triple is stationary and the
\* right triple is never the left triple itself; a stationary triple is the right
\* operand only when it is another stationary triple, so never when |S| = 1.
C3_LeftStationary ==
    \A c \in CallIds :
        \A k \in 1..Len(calls[c].emitted) :
            LET e == calls[c].emitted[k]
                S == calls[c].stationary
            IN  e.kind = "qg" =>
                    /\ e.left \in SeqSet(S)
                    /\ e.right # e.left
                    /\ e.right \in SeqSet(S) => Len(S) >= 2

\* C3 witness: a call whose one-sided constraints have a stationary right operand
\* in one case and a non-stationary right operand in another.
C3_Witness ==
    \E c \in CallIds :
        LET E == calls[c].emitted
            S == SeqSet(calls[c].stationary)
        IN  \E k, m \in 1..Len(E) :
                /\ E[k].kind = "qg" /\ E[k].right \in S
                /\ E[m].kind = "qg" /\ E[m].right \notin S

\* Two successive calls made on the same two lists.
Repeated(c) ==
    /\ c \in CallIds /\ c + 1 \in CallIds
    /\ calls[c].points = calls[c + 1].points
    /\ calls[c].stationary = calls[c + 1].stationary

\* C4 as stated: the second of two calls on unchanged lists emits what the first
\* emitted and leaves the registered constraint collection as the first left it.
C4_Original ==
    \A c \in CallIds :
        Repeated(c) =>
            /\ calls[c + 1].emitted = calls[c].emitted
            /\ calls[c + 1].after = calls[c].after

\* C4 amended: the second call emits the same constraints in the same order; each
\* is appended to list_of_constraints again, so the list grows by the emitted
\* count while the set of registered inequalities stays what the first call left.
C4_Idempotent ==
    \A c \in CallIds :
        Repeated(c) =>
            /\ calls[c + 1].emitted = calls[c].emitted
            /\ calls[c + 1].after = calls[c].after \o calls[c].emitted
            /\ SeqSet(calls[c + 1].after) = SeqSet(calls[c].after)

\* C4 witness: two successive calls on the same non-trivial lists.
C4_Witness ==
    \E c \in CallIds :
        /\ Repeated(c)
        /\ Len(calls[c].points) >= 2
        /\ Len(calls[c].emitted) >= 2

\* A call made with one stationary triple and k = |P| - 1 further triples.
SingleStationary(c) ==
    /\ Len(calls[c].stationary) = 1
    /\ calls[c].stationary[1] \in SeqSet(calls[c].points)

\* C7 as stated: with one stationary triple and k further triples, k one-sided
\* constraints and k*k ordered-pair constraints.
C7_Original ==
    \A c \in CallIds :
        LET k == Len(calls[c].points) - 1
        IN  SingleStationary(c) =>
                /\ Count(calls[c].emitted, "qg") = k
                /\ Count(calls[c].emitted, "cvx") = k * k

\* C7 amended: with one stationary triple and k further triples, k one-sided
\* constraints and (k+1)*k ordered-pair constraints.
C7_Counts ==
    \A c \in CallIds :
        LET k == Len(calls[c].points) - 1
        IN  SingleStationary(c) =>
                /\ Count(calls[c].emitted, "qg") = k
                /\ Count(calls[c].emitted, "cvx") = (k + 1) * k

\* C7 witness: a call with one stationary triple and two further triples.
C7_Witness ==
    \E c \in CallIds :
        /\ SingleStationary(c)
        /\ Len(calls[c].points) = 3
        /\ Count(calls[c].emitted, "cvx") = 6

----------------------------------------------------------------------------
\* Properties of the unrollers, checked under Spec.

Unrolling == algo \in {"cg", "gd", "hb"}
Finished == pc \in {"done", "raised"}
MetricRegistered == pc \in {"solve", "tau", "return", "done"}

\* C5 as stated: in each unroller the point list only grows, every append
\* happens before the single call to solve, solve is called exactly once, and
\* constraint generation reads the final point list.
C5_Original ==
    Unrolling =>
        /\ points_grew
        /\ solve_calls <= 1
        /\ Len(calls) = solve_calls
        /\ solve_calls = 1 => calls[1].points = list_of_points
        /\ Finished => solve_calls = 1

\* The final iterate x_n and the closed-form bound each unroller returns.
FinalIterate == IF algo = "gd" THEN locals["x"] ELSE locals["x_new"]
TheoreticalBound ==
    IF algo = "gd" THEN theoretical_tau(L, locals["u"])
    ELSE FDiv(FFromInt(L), FFromInt(2 * (n + 1)))

\* C6 as stated: for every n >= 0 each unroller registers exactly one performance
\* metric, f(x_n) - f_star, after the n steps, then calls solve, and returns
\* (solved value, theoretical bound); no unroller fails before reaching solve.
C6_Original ==
    Unrolling =>
        /\ pc # "raised"
        /\ Len(list_of_performance_metrics) = (IF MetricRegistered THEN 1 ELSE 0)
        /\ MetricRegistered =>
               /\ locals["iter"] = n
               /\ IsEvaluated(FinalIterate)
               /\ list_of_performance_metrics[1] =
                      [plus |-> FirstAt(FinalIterate).f, minus |-> locals["fs"]]
               /\ list_of_stationary_points[1].f = locals["fs"]
        /\ pc = "solve" => solve_calls = 0
        /\ pc = "done" =>
               /\ solve_calls = 1
               /\ locals["return"] = <<SolvedValue, TheoreticalBound>>

\* C8: in each unroller, once stationary_point has returned, the stationary list
\* holds exactly one triple, with zero subgradient and value f_star, and that
\* triple is the first triple of the point list and occurs nowhere else in it.
C8_SingleStationary ==
    Unrolling /\ pc # "xs" =>
        /\ Len(list_of_stationary_points) = 1
        /\ Len(list_of_points) >= 1
        /\ list_of_points[1] = list_of_stationary_points[1]
        /\ \A k \in 2..Len(list_of_points) :
               list_of_points[k] # list_of_stationary_points[1]
        /\ list_of_stationary_points[1].x = locals["xs"]
        /\ list_of_stationary_points[1].g = ZeroPoint
        /\ Bound("fs") => list_of_stationary_points[1].f = locals["fs"]

\* C8 witness: a heavy-ball run about to call solve after at least two steps.
C8_Witness ==
    /\ algo = "hb"
    /\ pc = "solve"
    /\ n >= 2
    /\ Len(list_of_points) >= 5
    /\ Len(list_of_stationary_points) = 1

\* After t loop iterations of the decreasing-step unroller the point list holds
\* the stationary triple and one triple for each of x_0 .. x_t, no two at the same
\* point, the last one being the current (x, g, f); u is 1 before the first
\* iteration, and the bound computed after the loop is L/(2*u), L/2 when n = 0.
C9_State ==
    algo = "gd" /\ Bound("iter") =>
        LET t == locals["iter"]
        IN  /\ t <= n
            /\ Len(list_of_points) = t + 2
            /\ list_of_points[2].x = LeafPoint(1)
            /\ list_of_points[t + 2] = Triple(locals["x"], locals["g"], locals["f"])
            /\ \A s \in 0..t :
                   Cardinality({k \in 1..Len(list_of_points) :
                                   list_of_points[k].x = list_of_points[s + 2].x}) = 1
            /\ t = 0 => locals["u"] = FFromInt(1)
            /\ Bound("theoretical_tau") =>
                   /\ t = n
                   /\ locals["theoretical_tau"] = theoretical_tau(L, locals["u"])
                   /\ n = 0 => locals["theoretical_tau"] = FDiv(FFromInt(L), FFromInt(2))

\* A step of the decreasing-step unroller either leaves the iteration count, u, x
\* and the point list alone, or is loop iteration t: u advances by the recurrence,
\* the step size is 1/(L*u) of the advanced u, x moves by - step size * g with g
\* the subgradient queried at the old x, and one triple, at the new x, is recorded.
C9_Step ==
    algo = "gd" /\ Bound("iter") =>
        LET t == locals["iter"]
        IN  IF locals'["iter"] = t
            THEN /\ locals'["u"] = locals["u"]
                 /\ locals'["x"] = locals["x"]
                 /\ list_of_points' = list_of_points
            ELSE /\ t < n
                 /\ locals'["iter"] = t + 1
                 /\ locals'["u"] = NextU(locals["u"])
                 /\ locals'["gamma"] = gamma(L, locals'["u"])
                 /\ locals'["x"] =
                        PSub(locals["x"], PScale(locals'["gamma"], list_of_points[t + 2].g))
                 /\ list_of_points' = Append(list_of_points, list_of_points'[t + 3])
                 /\ list_of_points'[t + 3].x = locals'["x"]

\* C9: in the decreasing-step unroller u starts at u_0 = 1 and loop iteration t
\* advances it to u_{t+1} by the recurrence before the step size is computed, so
\* that x_{t+1} = x_t - gamma_t * g_t with gamma_t = 1/(L*u_{t+1}) and g_t the
\* subgradient queried at x_t; the oracle is queried exactly once at each of
\* x_0 .. x_t; and the bound computed after the loop is L/(2*u_n), L/2 when n = 0.
C9_DecreasingSteps == []C9_State /\ [][C9_Step]_vars

\* C9 witness: a gradient-descent run that took at least two steps and computed
\* its bound.
C9_Witness ==
    /\ algo = "gd"
    /\ pc = "metric"
    /\ n >= 2
    /\ locals["iter"] = n
    /\ Bound("theoretical_tau")

\* With t heavy-ball iterations done: x_new and x_old are both x_0 when t = 0,
\* and x_old is the point whose gradient the last iteration queried, x_{t-1},
\* when t >= 1; iteration s recorded its triple at position s + 3 of the point
\* list; after the first iteration x_new is x_0 - (1/(2L)) * grad f(x_0), the
\* momentum term having vanished; and the performance metric is the value
\* recorded at x_new = x_n minus f_star.
C10_State ==
    algo = "hb" /\ Bound("iter") =>
        LET t == locals["iter"]
        IN  /\ t <= n
            /\ Len(list_of_points) >= t + 2
            /\ t = 0 => locals["x_new"] = LeafPoint(1) /\ locals["x_old"] = LeafPoint(1)
            /\ t >= 1 => locals["x_old"] = list_of_points[t + 2].x
            /\ t = 1 => locals["x_new"] =
                   PSub(LeafPoint(1),
                        PScale(FDiv(FFromInt(1), FFromInt(2 * L)), list_of_points[3].g))
            /\ MetricRegistered =>
                   /\ t = n
                   /\ IsEvaluated(locals["x_new"])
                   /\ list_of_performance_metrics =
                          <<[plus |-> FirstAt(locals["x_new"]).f, minus |-> locals["fs"]]>>

\* A step of the heavy-ball unroller either leaves the iteration count, x_new and
\* x_old alone, or is loop iteration t: one triple is recorded, at x_t = x_new,
\* x_{t+1} = x_t - (1/(L*(t+2))) * g + (t/(t+2)) * (x_t - x_{t-1}) with g the
\* gradient of that triple and x_{t-1} = x_old, and then x_old is x_t and x_new
\* is x_{t+1}.
C10_Step ==
    algo = "hb" /\ Bound("iter") =>
        LET t == locals["iter"]
        IN  IF locals'["iter"] = t
            THEN /\ locals'["x_new"] = locals["x_new"]
                 /\ locals'["x_old"] = locals["x_old"]
            ELSE /\ t < n
                 /\ locals'["iter"] = t + 1
                 /\ list_of_points' = Append(list_of_points, list_of_points'[t + 3])
                 /\ list_of_points'[t + 3].x = locals["x_new"]
                 /\ locals'["x_old"] = locals["x_new"]
                 /\ locals'["x_new"] =
                        PAdd(PSub(locals["x_new"],
                                  PScale(FDiv(FFromInt(1), FFromInt(L * (t + 2))),
                                         list_of_points'[t + 3].g)),
                             PScale(FDiv(FFromInt(t), FFromInt(t + 2)),
                                    PSub(locals["x_new"], locals["x_old"])))

\* C10: in the heavy-ball unroller, at the start of loop iteration t x_new is
\* x_t and x_old is x_{t-1} (x_0 when t = 0); the iteration queries the gradient
\* at x_t, computes x_{t+1} = x_t - (1/(L*(t+2))) * grad f(x_t)
\* + (t/(t+2)) * (x_t - x_{t-1}) and shifts x_old := x_t, x_new := x_{t+1}; and
\* the performance metric is the value recorded at x_n minus f_star.
C10_HeavyBall == []C10_State /\ [][C10_Step]_vars

\* C10 witness: a heavy-ball run at the start of an iteration t >= 2, where the
\* retained past iterate is no longer the initial point.
C10_Witness ==
    /\ algo = "hb"
    /\ pc = "loop"
    /\ locals["iter"] >= 2
    /\ locals["iter"] < n
    /\ locals["x_old"] # locals["x0"]
    /\ locals["x_old"] # locals["x_new"]

\* The class constraints registered by the solve call of the run.
ClassConstraintsAtSolve == Count(calls[1].emitted, "qg") + Count(calls[1].emitted, "cvx")

\* C11 as stated: at solve time gradient descent with n iterations has n+2
\* recorded triples and (n+1)*(n+3) class constraints, heavy ball with n
\* iterations has n+3 recorded triples and (n+2)*(n+4) class constraints.
C11_Original ==
    Len(calls) = 1 =>
        /\ algo = "gd" =>
               /\ Len(calls[1].points) = n + 2
               /\ ClassConstraintsAtSolve = (n + 1) * (n + 3)
        /\ algo = "hb" =>
               /\ Len(calls[1].points) = n + 3
               /\ ClassConstraintsAtSolve = (n + 2) * (n + 4)

\* C11 amended: gradient descent with n >= 0 iterations has n+2 recorded triples
\* and (n+1)*(n+3) class constraints; heavy ball with n >= 1 iterations has n+3
\* recorded triples, x_0 being recorded twice, and (n+2)*(n+4) class constraints;
\* heavy ball with n = 0 has 2 recorded triples and 3 class constraints. Both
\* documented runs (gradient descent n = 6, heavy ball n = 5) give 63.
C11_ConstraintsAtSolve ==
    Len(calls) = 1 =>
        /\ Len(calls[1].emitted) = ClassConstraintsAtSolve
        /\ Len(calls[1].after) = Len(calls[1].before) + ClassConstraintsAtSolve
        /\ algo = "gd" =>
               /\ Len(calls[1].points) = n + 2
               /\ ClassConstraintsAtSolve = (n + 1) * (n + 3)
               /\ n = 6 => ClassConstraintsAtSolve = 63
        /\ algo = "hb" /\ n >= 1 =>
               /\ Len(calls[1].points) = n + 3
               /\ calls[1].points[2].x = calls[1].points[3].x
               /\ calls[1].points[2] # calls[1].points[3]
               /\ ClassConstraintsAtSolve = (n + 2) * (n + 4)
               /\ n = 5 => ClassConstraintsAtSolve = 63
        /\ algo = "hb" /\ n = 0 =>
               /\ Len(calls[1].points) = 2
               /\ ClassConstraintsAtSolve = 3

\* C11 witness: the documented heavy-ball run, n = 5, after solve registered its
\* 63 class constraints.
C11_Witness ==
    /\ algo = "hb"
    /\ n = 5
    /\ Len(calls) = 1
    /\ Len(calls[1].points) = 8
    /\ ClassConstraintsAtSolve = 63

====
